---- MODULE Spec2Model ----
(***************************************************************************)
(* State-machine model of the jni-on-linux user-space ELF loader           *)
(* (jni-loader/src/jni.rs, src/mmap.rs).                                   *)
(*                                                                         *)
(* Machine words are scaled: a usize is WordMod = 2^16 wide in the model   *)
(* (TLC integers are 32 bit), addresses and sentinels are scaled with it.  *)
(* An Option<T> is the empty sequence (None) or a one-element sequence     *)
(* (Some(x)).  A dependency handle is a loader id, 0 stands for None.      *)
(***************************************************************************)
EXTENDS Integers, Sequences, FiniteSets, TLC

\* ------------------------------------------------------------------ bounds
MaxLoaders == 4          \* loader instances that can exist at once
MaxOverrides == 1        \* entries in all symbol_overrides maps together
MaxRuns == 3             \* cap of the counter of relocation passes of a loader

\* --------------------------------------------------------------- constants
WordMod == 65536                 \* 2^64 scaled to the model's word
UNDEFINED_SYMBOL_VALUE == 47806  \* 0xBABECAFE scaled to the model's word (0xBABE)
PLT_0 == 51966                   \* 0xCAFEBABE scaled to the model's word (0xCAFE)
PLT_FAILED == 2989               \* 0xBADBABE scaled to the model's word (0xBAD)
STN_UNDEF == 0
HostFn == 30000                  \* address of a host function used as override
TrampolineAddr == 31000          \* plt::trampoline
PltDataBase == 32000             \* heap addresses of the PltData records
ImageStride == 4096              \* distance between two reserved images

Loaders == 1..MaxLoaders
Threads == {1}
NoDep == 0
None == <<>>
Some(x) == <<x>>
IsSome(o) == o # <<>>
Unwrap(o) == o[1]

SymNames == {"f", "g"}          \* names the host overrides or asks for

\* ------------------------------------------------------------ ELF fixtures
Sym(n, v, sz) == [name |-> n, value |-> v, size |-> sz]
Rel(o, t, s, a) == [offset |-> o, rel_type |-> t, symbol |-> s, addend |-> a]

\* ELF symbol index i is element i + 1 of dynsym; index 0 is the null symbol.
ElfA ==
  [ bva |-> 16, hasDynamic |-> TRUE, needed |-> <<"libB", "libC">>,
    dynsym |-> << Sym("", 0, 0), Sym("f", 0, 0), Sym("g", 0, 0),
                  Sym("a", 48, 4), Sym("u", 0, 0), Sym("", 0, 0) >>,
    hashed |-> {3},
    relDyn |-> << Rel(64, "GLOB_DAT", 2, 0), Rel(72, "RELATIVE", 0, 48),
                  Rel(80, "GLOB_DAT", 0, 0), Rel(88, "GLOB_DAT", 9, 0),
                  Rel(96, "GLOB_DAT", 4, 0), Rel(104, "GLOB_DAT", 3, 0),
                  Rel(144, "R64", 3, 4) >>,
    relPlt |-> << Rel(136, "JUMP_SLOT", 1, 0) >>,
    gotPlt |-> Some([addr |-> 112, count |-> 4]),
    slots |-> {56, 64, 72, 80, 88, 96, 104, 112, 120, 128, 136, 144} ]

ElfB ==
  [ bva |-> 0, hasDynamic |-> TRUE, needed |-> <<"libC">>,
    dynsym |-> << Sym("", 0, 0), Sym("f", 32, 8), Sym("g", 0, 0) >>,
    hashed |-> {1, 2},
    relDyn |-> << Rel(64, "GLOB_DAT", 2, 8), Rel(72, "GLOB_DAT", 1, 0) >>,
    relPlt |-> << >>,
    gotPlt |-> None,
    slots |-> {56, 64, 72} ]

ElfC ==
  [ bva |-> 0, hasDynamic |-> FALSE, needed |-> << >>,
    dynsym |-> << Sym("", 0, 0), Sym("f", 40, 8), Sym("g", 24, 4) >>,
    hashed |-> {1, 2},
    relDyn |-> << Rel(64, "RELATIVE", 0, 24) >>,
    relPlt |-> << >>,
    gotPlt |-> None,
    slots |-> {56, 64} ]

ElfOf(name) == CASE name = "libA" -> ElfA [] name = "libB" -> ElfB [] OTHER -> ElfC

\* The word the file holds at a slot before any relocation.
FileVal(off) == off \div 8

\* --------------------------------------------------------------- variables
VARIABLES
  arch,                   \* target_arch of the build
  inline_asm,             \* cargo feature "inline-asm" (lazy PLT binding)
  quirk,                  \* what is unusual in the object libA: "none"; "unnamed", a relocation
                          \* against its unnamed symbol; "addend", an addend in .rela.plt;
                          \* "shortgot", a .got.plt of two entries
  lib,                    \* lib[l]: file the loader l was created from, "" = not created
  deps,                   \* JNI.dependencies, in the map's iteration order
  registered,             \* the keys of JNI.dependencies in the order of their insertion
  loaded_dependencies,    \* JNI.loaded_dependencies
  have_been_initialized,  \* JNI.have_been_initialized
  looking_for_symbol,     \* JNI.looking_for_symbol
  symbol_overrides,       \* JNI.symbol_overrides
  mem,                    \* the words of the image the relocations target
  mutex,                  \* owner thread of the loader's Mutex, 0 = unlocked
  stack,                  \* stack[t]: the initialize() frames of thread t
  status,                 \* "ok", "deadlock" or the panic that ended the thread
  relocRuns,              \* how often the relocation pass of l has started
  bound,                  \* how each slot was bound: by the eager pass or the PLT callback
  ovAtInit,               \* symbol_overrides[l] as the relocation pass of l saw it
  ret,                    \* the value the last host call returned
  mfile,                  \* JNI::new's input: the kind of file at path and its PT_LOAD headers
  mpc,                    \* where JNI::new / MemoryMapping::new stands
  mseg,                   \* index of the load command the mapping loop is at
  image,                  \* the pages of the reserved range: kind, protection, bytes
  mresult,                \* what JNI::new returned, or the panic that ended it
  lfs,                    \* the directories of the file system that hold the library name
  lreq,                   \* the arguments and environment of locate_library_internal
  lpc,                    \* "idle", or "call" / "returned": a path is being resolved
  lfound,                 \* what locate_library_internal returned
  stub_req,               \* DlopenSymbols::new's input: the JNI pointer, what sysconf gives
  stub_pc,                \* where DlopenSymbols::new stands
  stub_step,              \* how many of the nine writes into the page are made
  stub_page,              \* the page of the three thunks: mapped, protection, contents
  stub_result,            \* what DlopenSymbols::new returned
  reloc_in,               \* one relocation of an x86_64 object: type, S, A, P and the build
  reloc_out,              \* what the match arm of the relocation did
  LIBRARIES,              \* the registry of attached images: base address -> the CString it owns (0: no entry)
  libraries_guard,        \* the thread that holds the registry's mutex, 0 if none
  cstrings,               \* how many CStrings add_library has allocated
  dbg                     \* each thread's position in a call of debug.rs

\* The state of JNI::new and its MemoryMapping
mvars == << mfile, mpc, mseg, image, mresult >>

\* The state of the path resolver
xvars == << lfs, lreq, lpc, lfound >>

\* The state of DlopenSymbols::new
svars == << stub_req, stub_pc, stub_step, stub_page, stub_result >>

\* One relocation and its outcome
avars == << reloc_in, reloc_out >>

\* The registry of attached images and the calls on it
dvars == << LIBRARIES, libraries_guard, cstrings, dbg >>

vars == << arch, inline_asm, quirk, lib, deps, registered, loaded_dependencies,
           have_been_initialized, looking_for_symbol, symbol_overrides, mem,
           mutex, stack, status, relocRuns, bound, ovAtInit, ret, mvars, xvars,
           svars, avars, dvars >>

\* The state of the loaders
lvars == << arch, inline_asm, quirk, lib, deps, registered, loaded_dependencies,
            have_been_initialized, looking_for_symbol, symbol_overrides, mem,
            mutex, stack, status, relocRuns, bound, ovAtInit, ret >>

Created == {l \in Loaders : lib[l] # ""}
Elf(l) == ElfOf(lib[l])

\* Variant: every reservation is handed the same address
BaseShared(l) == ImageStride
\* MemoryMapping.base of loader l (mmap hands out disjoint ranges).
Base(l) == l * ImageStride

\* MemoryMapping.size of loader l: from the page of the lowest PT_LOAD
\* address to the end of the page of the last word of the object
ImageSize(l) ==
  LET last == CHOOSE o \in Elf(l).slots : \A p \in Elf(l).slots : p <= o IN
  ImageStride * (((last + 8 - (Elf(l).bva - (Elf(l).bva % ImageStride)))
                    + ImageStride - 1) \div ImageStride)

\* JNI::get_offset
get_offset(l, offset) == (Base(l) + offset - Elf(l).bva) % WordMod

\* add_addend
add_addend(addr, addend) ==
  IF addend < 0 THEN (addr - (0 - addend)) % WordMod ELSE (addr + addend) % WordMod

\* LinkingSymbol::from
LinkingSymbolFrom(symbol, name, mapping_base, virtual_base_address) ==
  [ name |-> name, value |-> symbol.value, size |-> symbol.size,
    address |-> IF symbol.value = STN_UNDEF THEN None
                ELSE Some((mapping_base + symbol.value - virtual_base_address) % WordMod) ]

\* LinkingSymbol::from_override
LinkingSymbolFromOverride(symbol, name, address) ==
  [ name |-> name, value |-> symbol.value, size |-> symbol.size,
    address |-> Some(address) ]

\* self.symbol_overrides.get(name) .. unwrap_or(UNDEFINED_SYMBOL_VALUE)
HasOverride(l, name) == name \in DOMAIN symbol_overrides[l]
\* Variant: an override of None resolves to address 0
OverrideAddressZero(l, name) ==
  IF IsSome(symbol_overrides[l][name]) THEN Unwrap(symbol_overrides[l][name])
  ELSE 0
\* overridden_value.unwrap_or(UNDEFINED_SYMBOL_VALUE)
OverrideAddress(l, name) ==
  IF IsSome(symbol_overrides[l][name]) THEN Unwrap(symbol_overrides[l][name])
  ELSE UNDEFINED_SYMBOL_VALUE

\* Variant: the lookup by index never consults symbol_overrides
find_local_symbol_by_index_NoOverride(l, index, include_overrides) ==
  IF index + 1 > Len(Elf(l).dynsym) THEN None
  ELSE LET symbol == Elf(l).dynsym[index + 1] IN
       Some(LinkingSymbolFrom(symbol,
                              IF symbol.name # "" THEN Some(symbol.name) ELSE None,
                              Base(l), Elf(l).bva))
\* JNI::find_local_symbol_by_index
find_local_symbol_by_index(l, index, include_overrides) ==
  IF index + 1 > Len(Elf(l).dynsym) THEN None
  ELSE LET symbol == Elf(l).dynsym[index + 1] IN
       IF symbol.name # "" /\ include_overrides /\ HasOverride(l, symbol.name)
       THEN Some(LinkingSymbolFromOverride(symbol, Some(symbol.name),
                                           OverrideAddress(l, symbol.name)))
       ELSE Some(LinkingSymbolFrom(symbol,
                                   IF symbol.name # "" THEN Some(symbol.name) ELSE None,
                                   Base(l), Elf(l).bva))

\* JNI::find_local_symbol_by_name: the hash tables list the indices in hashed
find_local_symbol_by_name(l, symbol_name, include_overrides) ==
  LET hits == {i \in Elf(l).hashed : Elf(l).dynsym[i + 1].name = symbol_name} IN
  IF hits = {} THEN None
  ELSE LET symbol == Elf(l).dynsym[(CHOOSE i \in hits : TRUE) + 1] IN
       IF include_overrides /\ HasOverride(l, symbol_name)
       THEN Some(LinkingSymbolFromOverride(symbol, Some(symbol_name),
                                           OverrideAddress(l, symbol_name)))
       ELSE Some(LinkingSymbolFrom(symbol, Some(symbol_name), Base(l), Elf(l).bva))

\* JNI::find_global_symbol.  looking: the loaders whose looking_for_symbol is
\* set; held: the mutexes the calling thread holds.  The result is the
\* symbol and whether the search tried to lock a mutex in held.
RECURSIVE find_global_symbol(_, _, _, _, _), FindGlobalFrom(_, _, _, _, _, _)
find_global_symbol(l, symbol_name, include_overrides, looking, held) ==
  IF l \in looking THEN [sym |-> None, dead |-> FALSE]
  ELSE FindGlobalFrom(l, 1, symbol_name, include_overrides, looking \cup {l}, held)

FindGlobalFrom(l, i, symbol_name, include_overrides, looking, held) ==
  IF i > Len(deps[l]) THEN [sym |-> None, dead |-> FALSE]
  ELSE LET d == deps[l][i].dep IN
       IF d = NoDep
       THEN FindGlobalFrom(l, i + 1, symbol_name, include_overrides, looking, held)
       ELSE IF d \in held THEN [sym |-> None, dead |-> TRUE]
       ELSE CHOOSE out \in
              { IF global.dead THEN global
                ELSE IF IsSome(local) THEN [sym |-> local, dead |-> FALSE]
                ELSE IF IsSome(global.sym) THEN global
                ELSE FindGlobalFrom(l, i + 1, symbol_name, include_overrides, looking, held)
                : local \in {find_local_symbol_by_name(d, symbol_name, include_overrides)},
                  global \in {find_global_symbol(d, symbol_name, include_overrides,
                                                 looking, held \cup {d})} } : TRUE

\* ------------------------------------------------------- relocation engine
HeldBy(t) == {l \in Loaders : mutex[l] = t}
LookingSet == {l \in Loaders : looking_for_symbol[l]}

\* reloc_needs_symbol!: the symbol address S of a relocation of loader l, or
\* why there is none ("skip" = continue, "panic" = expect() failed, "dead" =
\* the global search locked a mutex its own thread holds).
reloc_needs_symbol(l, relocation, held) ==
  IF relocation.symbol = 0 THEN [k |-> "skip", a |-> 0, global |-> FALSE]
  ELSE LET found == find_local_symbol_by_index(l, relocation.symbol, TRUE) IN
       IF ~IsSome(found) THEN [k |-> "skip", a |-> 0, global |-> FALSE]
       ELSE LET local_symbol == Unwrap(found) IN
            IF IsSome(local_symbol.address)
            THEN [k |-> "addr", a |-> Unwrap(local_symbol.address), global |-> FALSE]
            ELSE IF ~IsSome(local_symbol.name)
            THEN [k |-> "panic", a |-> 0, global |-> FALSE]
            ELSE LET g == find_global_symbol(l, Unwrap(local_symbol.name), TRUE,
                                             LookingSet, held) IN
                 IF g.dead THEN [k |-> "dead", a |-> 0, global |-> TRUE]
                 ELSE IF ~IsSome(g.sym) THEN [k |-> "skip", a |-> 0, global |-> TRUE]
                 ELSE LET s == Unwrap(g.sym) IN
                      [k |-> "addr", global |-> TRUE,
                       a |-> IF IsSome(s.address) THEN Unwrap(s.address)
                             ELSE get_offset(l, s.value)]

NeedsSymbol(rel_type) ==
  IF arch = "x86_64" THEN rel_type \in {"R64", "PC32", "GLOB_DAT", "JUMP_SLOT"}
  ELSE rel_type \in {"R64", "GLOB_DAT", "JUMP_SLOT"}

HalfMod == 256                   \* 2^32 scaled to the model's word

\* The word one relocation writes at its target, given S (the match arms of
\* JNI::initialize for the build's target_arch); old is the word it replaces.
RelocValue(l, relocation, S, old) ==
  LET target_addr == get_offset(l, relocation.offset) IN
  IF arch = "x86_64" THEN
    CASE relocation.rel_type = "R64" -> add_addend(S, relocation.addend)
      [] relocation.rel_type = "PC32" ->
           (old - (old % HalfMod))
             + ((add_addend(S, relocation.addend) - target_addr) % HalfMod)
      [] relocation.rel_type \in {"GLOB_DAT", "JUMP_SLOT"} -> S
      [] relocation.rel_type = "RELATIVE" -> add_addend(Base(l), relocation.addend)
      [] OTHER -> old
  ELSE
    CASE relocation.rel_type \in {"GLOB_DAT", "JUMP_SLOT", "R64"} ->
           add_addend(S, relocation.addend)
      [] relocation.rel_type = "RELATIVE" -> add_addend(Base(l), relocation.addend)
      [] OTHER -> old

\* .rel.dyn / .rela.dyn of the object
RelDynOf(l) ==
  IF quirk = "unnamed" /\ lib[l] = "libA"
  THEN << Rel(56, "GLOB_DAT", 5, 0) >> \o Elf(l).relDyn
  ELSE Elf(l).relDyn

\* .rel.plt / .rela.plt of the object
RelPltOf(l) ==
  IF quirk = "addend" /\ lib[l] = "libA"
  THEN << Rel(136, "JUMP_SLOT", 1, 8) >>
  ELSE Elf(l).relPlt

\* The relocations Vec of JNI::initialize: .rel{,a}.dyn, and .rel{,a}.plt
\* when the build has no inline-asm feature.
Relocations(l) ==
  IF inline_asm THEN RelDynOf(l) ELSE RelDynOf(l) \o RelPltOf(l)

\* What the override map of l holds for a name: "absent", "none" or "some"
OverrideKind(l, name) ==
  IF ~HasOverride(l, name) THEN "absent"
  ELSE IF IsSome(symbol_overrides[l][name]) THEN "some" ELSE "none"

\* Record of a binding: who bound the slot, the symbol address S, whether the
\* global search was made, the symbol's name and its override at that time.
Binding(l, by, S, global, name) ==
  Some([by |-> by, S |-> S, global |-> global, name |-> name,
        ov |-> OverrideKind(l, name)])

SymbolNameAt(l, index) ==
  IF index = 0 \/ index + 1 > Len(Elf(l).dynsym) THEN ""
  ELSE Elf(l).dynsym[index + 1].name

\* One iteration of the "for relocation in relocations" loop: relocation r
\* applied to the image words m and the bindings b.
ApplyRelocation(l, r, m, b, held) ==
  CHOOSE out \in
    { CASE res.k = "panic" -> [mem |-> m, bound |-> b, outcome |-> "panic"]
        [] res.k = "dead" -> [mem |-> m, bound |-> b, outcome |-> "dead"]
        [] res.k = "skip" -> [mem |-> m, bound |-> b, outcome |-> "ok"]
        [] OTHER ->
             [mem |-> [m EXCEPT ![r.offset] = RelocValue(l, r, res.a, m[r.offset])],
              bound |-> IF NeedsSymbol(r.rel_type)
                        THEN [b EXCEPT ![r.offset] =
                                Binding(l, "eager", res.a, res.global,
                                        SymbolNameAt(l, r.symbol))]
                        ELSE b,
              outcome |-> "ok"]
      : res \in { IF NeedsSymbol(r.rel_type) THEN reloc_needs_symbol(l, r, held)
                  ELSE [k |-> "addr", a |-> 0, global |-> FALSE] } } : TRUE

\* The "for relocation in relocations" loop from entry i on, acc being the
\* image words and the bindings so far; a panic or a lock that never returns
\* ends it.
RECURSIVE ApplyRelocations(_, _, _, _, _)
ApplyRelocations(l, relocs, i, acc, held) ==
  IF i > Len(relocs) \/ acc.outcome # "ok" THEN acc
  ELSE CHOOSE out \in
         { ApplyRelocations(l, relocs, i + 1, step, held)
           : step \in { ApplyRelocation(l, relocs[i], acc.mem, acc.bound, held) } } : TRUE

\* Address of the PltData record of loader l
PltDataAddr(l) == PltDataBase + l

\* "Set up the PLT handler if needed": got_plt_entries[0..2] and the rebase
\* of the entries from 3 on.  An index past the slice panics.
RECURSIVE RebaseGot(_, _, _, _, _)
RebaseGot(l, addr, i, count, m) ==
  IF i >= count THEN m
  ELSE RebaseGot(l, addr, i + 1, count,
                 [m EXCEPT ![addr + 8 * i] = get_offset(l, m[addr + 8 * i])])

\* The .got.plt section header of the object: sh_addr and sh_size / 8
GotPltOf(l) ==
  IF quirk = "shortgot" /\ lib[l] = "libA"
  THEN Some([addr |-> 112, count |-> 2])
  ELSE Elf(l).gotPlt

SetupPlt(l, m) ==
  IF ~inline_asm \/ ~IsSome(GotPltOf(l)) THEN [mem |-> m, outcome |-> "ok"]
  ELSE LET got == Unwrap(GotPltOf(l))
           m0 == IF got.count > 0 THEN [m EXCEPT ![got.addr] = PLT_0] ELSE m
           m1 == IF got.count > 1 THEN [m0 EXCEPT ![got.addr + 8] = PltDataAddr(l)] ELSE m0
           m2 == IF got.count > 2 THEN [m1 EXCEPT ![got.addr + 16] = TrampolineAddr] ELSE m1
       IN IF got.count < 3 THEN [mem |-> m2, outcome |-> "index"]
          ELSE [mem |-> RebaseGot(l, got.addr, 3, got.count, m2), outcome |-> "ok"]

\* The part of JNI::initialize after the dependency loop.
RelocationPass(l, held) ==
  CHOOSE out \in
    { IF applied.outcome # "ok" THEN applied
      ELSE [mem |-> SetupPlt(l, applied.mem).mem, bound |-> applied.bound,
            outcome |-> SetupPlt(l, applied.mem).outcome]
      : applied \in { ApplyRelocations(l, Relocations(l), 1,
                                       [mem |-> mem[l], bound |-> bound[l],
                                        outcome |-> "ok"], held) } } : TRUE

\* --------------------------------------------------------- host operations
\* The loaders the host program created with JNI::new and holds handles to:
\* one of libA, libB and libC.  Loaders made by load_dependencies get the
\* remaining ids; the host has no handle to them.
HostLoaders == {1, 2, 3}
HostOrder == << "libA", "libB", "libC" >>

\* The value a call returned: the operation, the loader, the symbol name,
\* the value, Ok or Err, and (load_dependencies) what the file system did.
NoRet == [op |-> "", l |-> 0, name |-> "", val |-> None, ok |-> TRUE, env |-> << >>]
Ret(op, l, name, val, ok) ==
  [op |-> op, l |-> l, name |-> name, val |-> val, ok |-> ok, env |-> << >>]

\* The image words and bindings of a loader right after JNI::new
FreshMem(name) == IF name = "" THEN << >> ELSE [o \in ElfOf(name).slots |-> FileVal(o)]
FreshBound(name) == IF name = "" THEN << >> ELSE [o \in ElfOf(name).slots |-> None]

\* The host thread is between two calls of the loader's API
HostIdle(t) == stack[t] = << >> /\ status[t] = "ok" /\ ret = NoRet

\* The host drops the value the last call returned
TakeResult(t) ==
  /\ stack[t] = << >> /\ status[t] = "ok" /\ ret # NoRet
  /\ ret' = NoRet
  /\ UNCHANGED << mvars, xvars, svars, avars, dvars, arch, inline_asm, quirk, lib, deps, registered,
                  loaded_dependencies,
                  have_been_initialized, looking_for_symbol, symbol_overrides, mem,
                  mutex, stack, status, relocRuns, bound, ovAtInit >>

OverrideCount == LET RECURSIVE Sum(_)
                     Sum(S) == IF S = {} THEN 0
                               ELSE LET x == CHOOSE y \in S : TRUE
                                    IN Cardinality(DOMAIN symbol_overrides[x]) + Sum(S \ {x})
                 IN Sum(HostLoaders)

\* The loaders the host registers overrides on: those whose object has
\* relocations against symbols
OverrideLoaders == {l \in HostLoaders : lib[l] \in {"libA", "libB"}}

DepKeys(sq) == {sq[i].name : i \in 1..Len(sq)}
DepGet(sq, name) == sq[CHOOSE i \in 1..Len(sq) : sq[i].name = name].dep
Names(sq) == {sq[i] : i \in 1..Len(sq)}

\* HashMap::insert: an existing key keeps its place, a new key lands at
\* position pos of the iteration order.
InsertAt(sq, pos, e) ==
  [i \in 1..(Len(sq) + 1) |-> IF i < pos THEN sq[i] ELSE IF i = pos THEN e ELSE sq[i - 1]]

MapInsert(sq, name, d, pos) ==
  IF name \in DepKeys(sq)
  THEN [i \in 1..Len(sq) |-> IF sq[i].name = name THEN [name |-> name, dep |-> d] ELSE sq[i]]
  ELSE InsertAt(sq, pos, [name |-> name, dep |-> d])

\* The names the host registers on loader l: the DT_NEEDED names of its
\* object; on libC also libB, which closes a cycle libB -> libC -> libB.
DepNamesOf(l) == Names(Elf(l).needed) \cup (IF lib[l] = "libC" THEN {"libB"} ELSE {})

\* The host registers None (a dependency to leave out) on libA only
NoneFor(l) == IF lib[l] = "libA" THEN {NoDep} ELSE {}

\* HashMap::insert seen from the order of insertion: a key the map holds
\* keeps its place, a new key is the last inserted.
InsertionOrder(names, name) ==
  IF \E i \in 1..Len(names) : names[i] = name THEN names ELSE Append(names, name)

\* JNI::add_dependency / JNI::add_shared_dependency with no loader or with
\* the host's loader of that library.  The host registers the dependencies
\* of a loader before it initializes it.
AddDependency(t) ==
  /\ HostIdle(t)
  /\ \E l \in HostLoaders : \E name \in DepNamesOf(l) :
       /\ ~have_been_initialized[l]
       /\ \E pos \in 1..(Len(deps[l]) + 1), d \in NoneFor(l) \cup {x \in HostLoaders : lib[x] = name} :
          /\ deps' = [deps EXCEPT ![l] = MapInsert(deps[l], name, d, pos)]
          /\ deps' # deps
          /\ registered' = [registered EXCEPT ![l] = InsertionOrder(@, name)]
  /\ UNCHANGED << mvars, xvars, svars, avars, dvars, arch, inline_asm, quirk, lib, loaded_dependencies,
                  have_been_initialized, looking_for_symbol, symbol_overrides, mem,
                  mutex, stack, status, relocRuns, bound, ovAtInit, ret >>

\* JNI::override_symbol, for a name the host has not overridden yet
OverrideSymbol(t) ==
  /\ HostIdle(t)
  /\ \E l \in OverrideLoaders, name \in SymNames, v \in {None, Some(HostFn)} :
       /\ ~HasOverride(l, name) /\ OverrideCount < MaxOverrides
       /\ symbol_overrides' =
            [symbol_overrides EXCEPT ![l] =
               [n \in DOMAIN symbol_overrides[l] \cup {name} |->
                  IF n = name THEN v ELSE symbol_overrides[l][n]]]
       /\ symbol_overrides' # symbol_overrides
  /\ UNCHANGED << mvars, xvars, svars, avars, dvars, arch, inline_asm, quirk, lib, deps, registered,
                  loaded_dependencies,
                  have_been_initialized, looking_for_symbol, mem,
                  mutex, stack, status, relocRuns, bound, ovAtInit, ret >>

\* The guard at the top of JNI::load_dependencies
AlreadyLoaded(l) == loaded_dependencies[l]

\* Variant: only an entry that holds a loader counts as registered
IsRegisteredSome(sq, lib_name) ==
  lib_name \in DepKeys(sq) /\ DepGet(sq, lib_name) # NoDep
\* "if let Some(dependency) = self.dependencies.get(&lib_name)"
IsRegistered(sq, lib_name) == lib_name \in DepKeys(sq)

Pos(sq, p) == IF p > Len(sq) + 1 THEN Len(sq) + 1 ELSE p

FreeIds(libf) == {x \in Loaders : libf[x] = ""}

\* The "for lib_name in dependencies" loop of JNI::load_dependencies from
\* entry i on.  outs[i] is what locate_library_internal and JNI::new do for
\* entry i ("missing": not located, "bad": located but JNI::new fails, "ok"),
\* poss[i] where a new key lands in the map.
RECURSIVE LoadLoop(_, _, _, _, _, _)
LoadLoop(l, i, sq, libf, outs, poss) ==
  LET needed == Elf(l).needed IN
  IF i > Len(needed) THEN [deps |-> sq, lib |-> libf, full |-> FALSE]
  ELSE IF IsRegistered(sq, needed[i]) THEN LoadLoop(l, i + 1, sq, libf, outs, poss)
  ELSE IF outs[i] = "ok"
       THEN IF FreeIds(libf) = {} THEN [deps |-> sq, lib |-> libf, full |-> TRUE]
            ELSE LET n == CHOOSE x \in FreeIds(libf) : \A y \in FreeIds(libf) : x <= y IN
                 LoadLoop(l, i + 1, MapInsert(sq, needed[i], n, Pos(sq, poss[i])),
                          [libf EXCEPT ![n] = needed[i]], outs, poss)
       ELSE LoadLoop(l, i + 1, MapInsert(sq, needed[i], NoDep, Pos(sq, poss[i])),
                     libf, outs, poss)

\* The keys the loop of load_dependencies inserted, in the order of needed
InsertedKeys(needed, old, new) ==
  SelectSeq(needed, LAMBDA n : ~IsRegistered(old, n) /\ IsRegistered(new, n))

\* Variant: load_dependencies without its guard, building the map anew
LoadDependenciesAgain(t) ==
  /\ HostIdle(t)
  /\ \E l \in HostLoaders :
       /\ ~have_been_initialized[l]
       /\ loaded_dependencies' = [loaded_dependencies EXCEPT ![l] = TRUE]
       /\ IF ~Elf(l).hasDynamic
          THEN /\ ret' = Ret("load_dependencies", l, "", None, FALSE)
               /\ UNCHANGED << deps, registered, lib, mem, bound >>
          ELSE \E outs \in [1..Len(Elf(l).needed) -> {"missing", "bad", "ok"}],
                  poss \in [1..Len(Elf(l).needed) -> 1..(Len(Elf(l).needed) + 1)] :
                 LET r == LoadLoop(l, 1, << >>, lib, outs, poss) IN
                 /\ ~r.full
                 /\ deps' = [deps EXCEPT ![l] = r.deps]
                 /\ registered' = [registered EXCEPT ![l] = InsertedKeys(Elf(l).needed, << >>, r.deps)]
                 /\ lib' = r.lib
                 /\ mem' = [x \in Loaders |->
                              IF lib[x] = "" /\ r.lib[x] # "" THEN FreshMem(r.lib[x])
                              ELSE mem[x]]
                 /\ bound' = [x \in Loaders |->
                                IF lib[x] = "" /\ r.lib[x] # "" THEN FreshBound(r.lib[x])
                                ELSE bound[x]]
                 /\ ret' = [Ret("load_dependencies", l, "", None, TRUE)
                              EXCEPT !.env = outs]
  /\ UNCHANGED << mvars, xvars, svars, avars, dvars, arch, inline_asm, quirk, have_been_initialized, looking_for_symbol,
                  symbol_overrides, mutex, stack, status, relocRuns, ovAtInit >>
\* JNI::load_dependencies
LoadDependencies(t) ==
  /\ HostIdle(t)
  /\ \E l \in HostLoaders :
       IF AlreadyLoaded(l)
       THEN /\ ret' = Ret("load_dependencies", l, "", None, TRUE)
            /\ UNCHANGED << loaded_dependencies, deps, registered, lib, mem, bound >>
       ELSE /\ ~have_been_initialized[l]
            /\ loaded_dependencies' = [loaded_dependencies EXCEPT ![l] = TRUE]
            /\ IF ~Elf(l).hasDynamic
               THEN /\ ret' = Ret("load_dependencies", l, "", None, FALSE)
                    /\ UNCHANGED << deps, registered, lib, mem, bound >>
               ELSE \E outs \in [1..Len(Elf(l).needed) -> {"missing", "bad", "ok"}],
                       poss \in [1..Len(Elf(l).needed) -> 1..(Len(Elf(l).needed) + 1)] :
                      LET r == LoadLoop(l, 1, deps[l], lib, outs, poss) IN
                      /\ ~r.full
                      /\ deps' = [deps EXCEPT ![l] = r.deps]
                      /\ registered' = [registered EXCEPT ![l] =
                                          @ \o InsertedKeys(Elf(l).needed, deps[l], r.deps)]
                      /\ lib' = r.lib
                      /\ mem' = [x \in Loaders |->
                                   IF lib[x] = "" /\ r.lib[x] # "" THEN FreshMem(r.lib[x])
                                   ELSE mem[x]]
                      /\ bound' = [x \in Loaders |->
                                     IF lib[x] = "" /\ r.lib[x] # "" THEN FreshBound(r.lib[x])
                                     ELSE bound[x]]
                      /\ ret' = [Ret("load_dependencies", l, "", None, TRUE)
                                   EXCEPT !.env = outs]
  /\ UNCHANGED << mvars, xvars, svars, avars, dvars, arch, inline_asm, quirk, have_been_initialized, looking_for_symbol,
                  symbol_overrides, mutex, stack, status, relocRuns, ovAtInit >>

\* What JNI::get_symbol(symbol_name) on loader l computes, the calling thread
\* holding the mutexes in held.
get_symbol(l, symbol_name, held) ==
  LET local == find_local_symbol_by_name(l, symbol_name, FALSE) IN
  IF IsSome(local)
  THEN [dead |-> FALSE,
        val |-> Some(<< get_offset(l, Unwrap(local).value), Unwrap(local).size >>)]
  ELSE LET g == find_global_symbol(l, symbol_name, FALSE, LookingSet, held) IN
       IF g.dead THEN [dead |-> TRUE, val |-> None]
       ELSE IF IsSome(g.sym)
       THEN [dead |-> FALSE,
             val |-> Some(<< get_offset(l, Unwrap(g.sym).value), Unwrap(g.sym).size >>)]
       ELSE [dead |-> FALSE, val |-> None]

\* JNI::get_symbol called by the host (which holds l's own handle)
GetSymbol(t) ==
  /\ HostIdle(t)
  /\ \E l \in HostLoaders, name \in SymNames :
       /\ mutex[l] = 0
       /\ \E r \in {get_symbol(l, name, HeldBy(t) \cup {l})} :
          IF r.dead
          THEN /\ status' = [status EXCEPT ![t] = "deadlock"]
               /\ ret' = NoRet
          ELSE /\ ret' = Ret("get_symbol", l, name, r.val, TRUE)
               /\ UNCHANGED status
  /\ UNCHANGED << mvars, xvars, svars, avars, dvars, arch, inline_asm, quirk, lib, deps, registered,
                  loaded_dependencies,
                  have_been_initialized, looking_for_symbol, symbol_overrides, mem,
                  mutex, stack, relocRuns, bound, ovAtInit >>

\* ------------------------------------------- the lookup guard of src/jni.rs
\* JNI::find_global_symbol of src/jni.rs (the copy without overrides) with
\* the flags it leaves behind.  looking: the loaders whose
\* looking_for_symbol is set; held: the mutexes the calling thread holds.
\* The result tells whether a symbol was found, whether the search tried to
\* lock a mutex in held, and the flags after the call.  The return inside
\* the loop leaves looking_for_symbol of l set.
RECURSIVE find_global_symbol_src(_, _, _, _), FindGlobalSrcFrom(_, _, _, _, _)
find_global_symbol_src(l, symbol_name, looking, held) ==
  IF l \in looking THEN [found |-> FALSE, dead |-> FALSE, looking |-> looking]
  ELSE FindGlobalSrcFrom(l, 1, symbol_name, looking \cup {l}, held)

FindGlobalSrcFrom(l, i, symbol_name, looking, held) ==
  IF i > Len(deps[l]) THEN [found |-> FALSE, dead |-> FALSE, looking |-> looking \ {l}]
  ELSE LET d == deps[l][i].dep IN
       IF d = NoDep THEN FindGlobalSrcFrom(l, i + 1, symbol_name, looking, held)
       ELSE IF d \in held THEN [found |-> FALSE, dead |-> TRUE, looking |-> looking]
       ELSE CHOOSE out \in
              { IF global.dead THEN global
                ELSE IF local \/ global.found
                THEN [found |-> TRUE, dead |-> FALSE, looking |-> global.looking]
                ELSE FindGlobalSrcFrom(l, i + 1, symbol_name, global.looking, held)
                : local \in {IsSome(find_local_symbol_by_name(d, symbol_name, FALSE))},
                  global \in {find_global_symbol_src(d, symbol_name, looking,
                                                     held \cup {d})} } : TRUE

\* JNI::find_symbol_by_name of src/jni.rs, as the relocation loop of that
\* copy's initialize calls it for one symbol name of loader l
FindSymbolByName(t) ==
  /\ HostIdle(t)
  /\ \E l \in HostLoaders, name \in SymNames :
       /\ mutex[l] = 0
       /\ IF IsSome(find_local_symbol_by_name(l, name, FALSE))
          THEN /\ ret' = Ret("find_symbol_by_name", l, name, None, TRUE)
               /\ UNCHANGED << looking_for_symbol, status >>
          ELSE \E r \in {find_global_symbol_src(l, name, LookingSet, HeldBy(t) \cup {l})} :
                 IF r.dead
                 THEN /\ status' = [status EXCEPT ![t] = "deadlock"]
                      /\ ret' = NoRet
                      /\ UNCHANGED looking_for_symbol
                 ELSE /\ looking_for_symbol' = [x \in Loaders |-> x \in r.looking]
                      /\ ret' = Ret("find_symbol_by_name", l, name, None, r.found)
                      /\ UNCHANGED status
  /\ UNCHANGED << mvars, xvars, svars, avars, dvars, arch, inline_asm, quirk, lib, deps, registered,
                  loaded_dependencies, have_been_initialized, symbol_overrides, mem,
                  mutex, stack, relocRuns, bound, ovAtInit >>

\* ------------------------------------------------------------- initialize
Top(t) == stack[t][Len(stack[t])]
Pop(sq) == SubSeq(sq, 1, Len(sq) - 1)
SetTop(t, f) == [stack EXCEPT ![t] = [@ EXCEPT ![Len(@)] = f]]

\* Variant: initialize without its guard
AlreadyInitializedNever(l) == FALSE
\* The guard at the top of JNI::initialize
AlreadyInitialized(l) == have_been_initialized[l]

\* Variant: initialize without its dependency loop
EnterFrameNoDeps(l) ==
  IF AlreadyInitialized(l)
  THEN [self |-> l, pc |-> "ret", todo |-> << >>, again |-> TRUE]
  ELSE [self |-> l, pc |-> "deps", again |-> FALSE, todo |-> << >>]
\* Entry of JNI::initialize on l: the guard, the flag, and the start of the
\* "for dependency in self.dependencies" loop.
EnterFrame(l) ==
  IF AlreadyInitialized(l)
  THEN [self |-> l, pc |-> "ret", todo |-> << >>, again |-> TRUE]
  ELSE [self |-> l, pc |-> "deps", again |-> FALSE,
        todo |-> [i \in 1..Len(deps[l]) |-> deps[l][i].dep]]

\* The host calls l.initialize() through l's handle
CallInitialize(t) ==
  /\ HostIdle(t)
  /\ \E l \in HostLoaders :
       /\ mutex[l] = 0
       /\ mutex' = [mutex EXCEPT ![l] = t]
       /\ stack' = [stack EXCEPT ![t] = << EnterFrame(l) >>]
       /\ have_been_initialized' = [have_been_initialized EXCEPT ![l] = TRUE]
  /\ UNCHANGED << mvars, xvars, svars, avars, dvars, arch, inline_asm, quirk, lib, deps, registered,
                  loaded_dependencies,
                  looking_for_symbol, symbol_overrides, mem, status, relocRuns, bound,
                  ovAtInit, ret >>

Running(t) == stack[t] # << >> /\ status[t] = "ok"

\* dependency loop: an entry that is None
InitSkipNone(t) ==
  /\ Running(t) /\ Top(t).pc = "deps" /\ Top(t).todo # << >>
  /\ Head(Top(t).todo) = NoDep
  /\ stack' = SetTop(t, [Top(t) EXCEPT !.todo = Tail(@)])
  /\ UNCHANGED << mvars, xvars, svars, avars, dvars, arch, inline_asm, quirk, lib, deps, registered,
                  loaded_dependencies,
                  have_been_initialized, looking_for_symbol, symbol_overrides, mem,
                  mutex, status, relocRuns, bound, ovAtInit, ret >>

\* Variant: the dependency's initialize is entered without its mutex
InitLockDepUnlocked(t) ==
  /\ Running(t) /\ Top(t).pc = "deps" /\ Top(t).todo # << >>
  /\ LET d == Head(Top(t).todo) IN
       /\ d # NoDep
       /\ stack' = [stack EXCEPT ![t] =
                      Append([@ EXCEPT ![Len(@)] = [Top(t) EXCEPT !.todo = Tail(@)]],
                             EnterFrame(d))]
       /\ have_been_initialized' = [have_been_initialized EXCEPT ![d] = TRUE]
  /\ UNCHANGED << mvars, xvars, svars, avars, dvars, arch, inline_asm, quirk, lib, deps, registered,
                  loaded_dependencies,
                  looking_for_symbol, symbol_overrides, mem, status, relocRuns,
                  bound, ovAtInit, ret, mutex >>
\* dependency loop: dependency.lock().unwrap() and the call dependency.initialize()
InitLockDep(t) ==
  /\ Running(t) /\ Top(t).pc = "deps" /\ Top(t).todo # << >>
  /\ LET d == Head(Top(t).todo) IN
       /\ d # NoDep
       /\ mutex[d] = 0
       /\ mutex' = [mutex EXCEPT ![d] = t]
       /\ stack' = [stack EXCEPT ![t] =
                      Append([@ EXCEPT ![Len(@)] = [Top(t) EXCEPT !.todo = Tail(@)]],
                             EnterFrame(d))]
       /\ have_been_initialized' = [have_been_initialized EXCEPT ![d] = TRUE]
  /\ UNCHANGED << mvars, xvars, svars, avars, dvars, arch, inline_asm, quirk, lib, deps, registered,
                  loaded_dependencies,
                  looking_for_symbol, symbol_overrides, mem, status, relocRuns,
                  bound, ovAtInit, ret >>

\* dependency loop: lock() on a mutex the thread itself holds never returns
\* (std::sync::Mutex: deadlock or panic)
InitSelfLock(t) ==
  /\ Running(t) /\ Top(t).pc = "deps" /\ Top(t).todo # << >>
  /\ Head(Top(t).todo) # NoDep
  /\ mutex[Head(Top(t).todo)] = t
  /\ \E s \in {"deadlock", "lock_panic"} : status' = [status EXCEPT ![t] = s]
  /\ UNCHANGED << mvars, xvars, svars, avars, dvars, arch, inline_asm, quirk, lib, deps, registered,
                  loaded_dependencies,
                  have_been_initialized, looking_for_symbol, symbol_overrides, mem,
                  mutex, stack, relocRuns, bound, ovAtInit, ret >>

\* after the dependency loop: the relocation pass and the PLT set-up
InitRelocate(t) ==
  /\ Running(t) /\ Top(t).pc = "deps" /\ Top(t).todo = << >>
  /\ \E l \in {Top(t).self} : \E r \in {RelocationPass(l, HeldBy(t))} :
        /\ mem' = [mem EXCEPT ![l] = r.mem]
        /\ bound' = [bound EXCEPT ![l] = r.bound]
        /\ relocRuns' = [relocRuns EXCEPT ![l] = IF @ < MaxRuns THEN @ + 1 ELSE @]
        /\ ovAtInit' = [ovAtInit EXCEPT ![l] = symbol_overrides[l]]
        /\ IF r.outcome = "ok"
           THEN /\ stack' = SetTop(t, [Top(t) EXCEPT !.pc = "ret"])
                /\ UNCHANGED status
           ELSE /\ UNCHANGED stack
                /\ \E s \in {"deadlock", "lock_panic", "expect_panic", "index_panic"} :
                     /\ r.outcome = "panic" => s = "expect_panic"
                     /\ r.outcome = "index" => s = "index_panic"
                     /\ r.outcome = "dead" => s \in {"deadlock", "lock_panic"}
                     /\ status' = [status EXCEPT ![t] = s]
  /\ UNCHANGED << mvars, xvars, svars, avars, dvars, arch, inline_asm, quirk, lib, deps, registered,
                  loaded_dependencies,
                  have_been_initialized, looking_for_symbol, symbol_overrides,
                  mutex, ret >>

\* Variant: the MutexGuard outlives the call
InitReturnKeepsLock(t) ==
  /\ Running(t) /\ Top(t).pc = "ret"
  /\ stack' = [stack EXCEPT ![t] = Pop(@)]
  /\ UNCHANGED << mvars, xvars, svars, avars, dvars, arch, inline_asm, quirk, lib, deps, registered,
                  loaded_dependencies,
                  have_been_initialized, looking_for_symbol, symbol_overrides, mem,
                  mutex, status, relocRuns, bound, ovAtInit, ret >>
\* initialize returns: the caller's MutexGuard on self is dropped
InitReturn(t) ==
  /\ Running(t) /\ Top(t).pc = "ret"
  /\ mutex' = [mutex EXCEPT ![Top(t).self] = 0]
  /\ stack' = [stack EXCEPT ![t] = Pop(@)]
  /\ UNCHANGED << mvars, xvars, svars, avars, dvars, arch, inline_asm, quirk, lib, deps, registered,
                  loaded_dependencies,
                  have_been_initialized, looking_for_symbol, symbol_overrides, mem,
                  status, relocRuns, bound, ovAtInit, ret >>

\* ------------------------------------------------------------ lazy binding
\* JNI::resolve_plt_symbol
resolve_plt_symbol(l, symbol_idx, held) ==
  LET found == find_local_symbol_by_index(l, symbol_idx, TRUE) IN
  IF ~IsSome(found) THEN [k |-> "none", a |-> 0, global |-> FALSE]
  ELSE LET local_symbol == Unwrap(found) IN
       IF IsSome(local_symbol.address)
       THEN [k |-> "addr", a |-> Unwrap(local_symbol.address), global |-> FALSE]
       ELSE IF local_symbol.value # 0
       THEN [k |-> "addr", a |-> get_offset(l, local_symbol.value), global |-> FALSE]
       ELSE IF ~IsSome(local_symbol.name) THEN [k |-> "none", a |-> 0, global |-> FALSE]
       ELSE LET g == find_global_symbol(l, Unwrap(local_symbol.name), TRUE,
                                        LookingSet, held) IN
            IF g.dead THEN [k |-> "dead", a |-> 0, global |-> TRUE]
            ELSE IF ~IsSome(g.sym) THEN [k |-> "none", a |-> 0, global |-> TRUE]
            ELSE LET s == Unwrap(g.sym) IN
                 IF IsSome(s.address)
                 THEN [k |-> "addr", a |-> Unwrap(s.address), global |-> TRUE]
                 ELSE IF s.value = 0 THEN [k |-> "none", a |-> 0, global |-> TRUE]
                 ELSE [k |-> "addr", a |-> get_offset(l, s.value), global |-> TRUE]

\* The slot of a PLT relocation still points at its PLT stub
Unbound(l, r) == mem[l][r.offset] = get_offset(l, FileVal(r.offset))

\* plt_callback (plt.rs) -> JNI::plt_callback: guest code of an initialized
\* loader calls through the slot of .rel{,a}.plt entry idx for the first time
PltCallback(t) ==
  /\ HostIdle(t)
  /\ inline_asm
  /\ \E l \in Created :
       /\ have_been_initialized[l]
       /\ mutex[l] = 0
       /\ \E idx \in 1..Len(RelPltOf(l)) :
            \E r \in {RelPltOf(l)[idx]} :
            \E res \in {resolve_plt_symbol(l, r.symbol, HeldBy(t) \cup {l})} :
               /\ Unbound(l, r)
               /\ CASE res.k = "dead" ->
                         /\ status' = [status EXCEPT ![t] = "deadlock"]
                         /\ ret' = NoRet
                         /\ UNCHANGED << mem, bound >>
                    [] res.k = "none" ->
                         /\ ret' = Ret("plt_callback", l, SymbolNameAt(l, r.symbol),
                                       Some(<< PLT_FAILED >>), FALSE)
                         /\ UNCHANGED << mem, bound, status >>
                    [] OTHER ->
                         /\ mem' = [mem EXCEPT ![l][r.offset] = add_addend(res.a, r.addend)]
                         /\ bound' = [bound EXCEPT ![l][r.offset] =
                                        Binding(l, "lazy", res.a, res.global,
                                                SymbolNameAt(l, r.symbol))]
                         /\ ret' = Ret("plt_callback", l, SymbolNameAt(l, r.symbol),
                                       Some(<< res.a >>), TRUE)
                         /\ UNCHANGED status
  /\ UNCHANGED << mvars, xvars, svars, avars, dvars, arch, inline_asm, quirk, lib, deps, registered,
                  loaded_dependencies,
                  have_been_initialized, looking_for_symbol, symbol_overrides,
                  mutex, stack, relocRuns, ovAtInit >>

\* ------------------------------------------------------------ memory mapper
MaxSegments == 2                 \* PT_LOAD headers of the file JNI::new is given
PageSize == 4                    \* sysconf(PAGE_SIZE), scaled: bytes of a page
MappingBase == 64                \* the address the reserving mmap returns

\* align_down / align_up (page_size is a power of two)
align_down(addr, page_size) == addr - (addr % page_size)
align_up(addr, page_size) == align_down(addr + page_size - 1, page_size)

\* The byte the file holds at an offset: never zero, so that a byte read
\* from the file differs from a zero-filled one.
FileByte(off) == off + 1

\* The PT_LOAD headers the model draws.  A segment starts gap bytes after
\* the end of the one before it and has p_filesz bytes of data followed by
\* bss bytes; p_offset is congruent to p_vaddr modulo the page size; the
\* file's largest p_align is the page size or twice that.
Gaps == {0, 5}
FileSizes == {0, 1, 3}
BssSizes == {0, 2}
SegFlags == {{"R", "X"}, {"R", "W"}}
Shapes == [gap : Gaps, filesz : FileSizes, bss : BssSizes, flags : SegFlags]

RECURSIVE SegsOf(_, _, _, _)
SegsOf(shapes, i, from, align) ==
  IF i > Len(shapes) THEN << >>
  ELSE << [p_vaddr |-> from + shapes[i].gap,
           p_offset |-> from + shapes[i].gap + PageSize,
           p_filesz |-> shapes[i].filesz,
           p_memsz |-> shapes[i].filesz + shapes[i].bss,
           p_flags |-> shapes[i].flags,
           p_align |-> align] >>
       \o SegsOf(shapes, i + 1,
                 from + shapes[i].gap + shapes[i].filesz + shapes[i].bss, align)

Files ==
  {[kind |-> k, segs |-> << >>] :
     k \in {"missing", "unreadable", "garbage", "ET_EXEC", "ET_DYN"}}
  \cup {[kind |-> "ET_DYN", segs |-> SegsOf(sh, 1, 0, al)] :
          sh \in UNION {[1..n -> Shapes] : n \in 1..MaxSegments},
          al \in {PageSize, 2 * PageSize}}

\* "Get load commands from program headers": one LoadCommand per PT_LOAD
LoadCommands(segs, page_size) ==
  [i \in 1..Len(segs) |->
     [map_start |-> align_down(segs[i].p_vaddr, page_size),
      data_end |-> segs[i].p_vaddr + segs[i].p_filesz,
      alloc_end |-> segs[i].p_vaddr + segs[i].p_memsz,
      map_offset |-> align_down(segs[i].p_offset, page_size),
      prot |-> segs[i].p_flags]]

\* load_alignment: the largest p_align of the PT_LOAD headers
LoadAlignment(segs) ==
  IF segs = << >> THEN 0
  ELSE CHOOSE a \in {segs[i].p_align : i \in 1..Len(segs)} :
         \A i \in 1..Len(segs) : segs[i].p_align <= a

\* virtual_mapping_base and mapping_size
VirtualMappingBase(cmds) == cmds[1].map_start
MappingSize(cmds) ==
  align_up(cmds[Len(cmds)].alloc_end - VirtualMappingBase(cmds), PageSize)

\* The pages of the reserved range.  Page p (from 1) holds the addresses
\* MappingBase + (p - 1) * PageSize .. MappingBase + p * PageSize - 1.
PageOf(addr) == ((addr - MappingBase) \div PageSize) + 1
InRange(p, addr, size) ==
  /\ MappingBase + (p - 1) * PageSize >= addr
  /\ MappingBase + (p - 1) * PageSize < addr + size

\* mmap(None, size, PROT_NONE, MAP_PRIVATE | MAP_ANONYMOUS)
MmapReserve(size) ==
  [p \in 1..(size \div PageSize) |->
     [kind |-> "reserved", prot |-> {}, bytes |-> [j \in 1..PageSize |-> 0]]]

\* mmap(addr, size, prot, MAP_PRIVATE | MAP_FIXED, file, offset)
MmapFile(img, addr, size, prot, offset) ==
  [p \in 1..Len(img) |->
     IF InRange(p, addr, size)
     THEN [kind |-> "file", prot |-> prot,
           bytes |-> [j \in 1..PageSize |->
                        FileByte(offset + (MappingBase + (p - 1) * PageSize - addr)
                                 + j - 1)]]
     ELSE img[p]]

\* mmap(addr, size, prot, MAP_PRIVATE | MAP_ANONYMOUS | MAP_FIXED)
MmapAnon(img, addr, size, prot) ==
  [p \in 1..Len(img) |->
     IF InRange(p, addr, size)
     THEN [kind |-> "anon", prot |-> prot, bytes |-> [j \in 1..PageSize |-> 0]]
     ELSE img[p]]

\* mprotect(addr, len, prot)
Mprotect(img, addr, len, prot) ==
  [p \in 1..Len(img) |->
     IF InRange(p, addr, len) THEN [img[p] EXCEPT !.prot = prot] ELSE img[p]]

\* memset(addr, 0, n)
Memset(img, addr, n) ==
  [p \in 1..Len(img) |->
     [img[p] EXCEPT !.bytes =
        [j \in 1..PageSize |->
           IF /\ MappingBase + (p - 1) * PageSize + j - 1 >= addr
              /\ MappingBase + (p - 1) * PageSize + j - 1 < addr + n
           THEN 0 ELSE img[p].bytes[j]]]]

\* Variant: munmap that leaves the last page of the range mapped
MunmapShort(img, addr, size) ==
  [p \in 1..Len(img) |->
     IF InRange(p, addr, size - PageSize)
     THEN [kind |-> "unmapped", prot |-> {}, bytes |-> [j \in 1..PageSize |-> 0]]
     ELSE img[p]]
\* munmap(addr, size)
Munmap(img, addr, size) ==
  [p \in 1..Len(img) |->
     IF InRange(p, addr, size)
     THEN [kind |-> "unmapped", prot |-> {}, bytes |-> [j \in 1..PageSize |-> 0]]
     ELSE img[p]]

\* The pages of the image that are mapped
Mapped(img) == {p \in 1..Len(img) : img[p].kind # "unmapped"}

\* The byte at an address of the image
ByteAt(img, addr) ==
  img[PageOf(addr)].bytes[((addr - MappingBase) % PageSize) + 1]


\* The load commands of the file JNI::new was given
Cmds == LoadCommands(mfile.segs, PageSize)

\* Variant: the fix-up of a shared page adds no earlier segment's protection
OverlappedProtNone(cmds, i, j) == {}
\* The segments before cmds[i] whose last page reaches into the first page
\* of cmds[i]: the "loop" that walks back until the first one that does not
RECURSIVE OverlappedProt(_, _, _)
OverlappedProt(cmds, i, j) ==
  IF j = 0 THEN {}
  ELSE IF align_up(cmds[j].alloc_end, PageSize) > cmds[i].map_start
       THEN cmds[j].prot \cup OverlappedProt(cmds, i, j - 1)
       ELSE {}

HaveOverlaps(cmds, i) ==
  i > 1 /\ align_up(cmds[i - 1].alloc_end, PageSize) > cmds[i].map_start

\* One iteration of "for (mut i, load_command) in load_commands.iter()
\* .enumerate()" on the image img.  fail names the system call of the
\* iteration that returns an errno (0: none), ub what a mmap of length 0
\* (NonZeroUsize::new_unchecked(0)) does: the kernel's EINVAL, or the abort of
\* a build that checks the precondition.
MapSegmentBody(img, cmds, i, fail, ub) ==
  LET c == cmds[i]
      base == VirtualMappingBase(cmds)
      aligned_data_addr == MappingBase + c.map_start - base
      aligned_data_size == align_up(c.data_end - c.map_start, PageSize)
      prot == c.prot
      last_data_page_addr == aligned_data_addr + aligned_data_size - PageSize
      data_end_addr == MappingBase + c.data_end - base
      data_space_size == align_up(data_end_addr, PageSize) - data_end_addr
      alloc_end_addr == MappingBase + c.alloc_end - base
      aligned_alloc_start_addr == align_up(data_end_addr, PageSize)
      aligned_alloc_size == align_up(alloc_end_addr, PageSize) - aligned_alloc_start_addr
      Err(m) == [img |-> Munmap(m, MappingBase, MappingSize(cmds)), outcome |-> "err"]
      Overlap(m) ==
        IF ~HaveOverlaps(cmds, i) THEN [img |-> m, outcome |-> "ok"]
        ELSE IF fail = 5 THEN Err(m)
        ELSE [img |-> Mprotect(m, aligned_data_addr, PageSize,
                               prot \cup OverlappedProt(cmds, i, i - 1)),
              outcome |-> "ok"]
      Bss(m) ==
        IF ~(align_up(c.data_end, PageSize) < c.alloc_end) THEN Overlap(m)
        ELSE IF fail = 4 THEN Err(m)
        ELSE Overlap(MmapAnon(m, aligned_alloc_start_addr, aligned_alloc_size, prot))
      Restore(m) ==
        IF "W" \in prot THEN Bss(m)
        ELSE IF fail = 3 THEN Err(m)
        ELSE Bss(Mprotect(m, last_data_page_addr, PageSize, prot))
      Zero(m) ==
        IF data_space_size > 0 /\ "W" \notin m[PageOf(data_end_addr)].prot
        THEN [img |-> m, outcome |-> "segv"]
        ELSE Restore(Memset(m, data_end_addr, data_space_size))
      Grant(m) ==
        IF "W" \in prot THEN Zero(m)
        ELSE IF fail = 2 THEN Err(m)
        ELSE Zero(Mprotect(m, last_data_page_addr, PageSize, prot \cup {"W"}))
  IN IF aligned_data_size = 0
     THEN IF ub = "abort" THEN [img |-> img, outcome |-> "abort"] ELSE Err(img)
     ELSE IF fail = 1 THEN Err(img)
     ELSE Grant(MmapFile(img, aligned_data_addr, aligned_data_size, prot, c.map_offset))

\* JNI::new up to the call of MemoryMapping::new
JNINew ==
  /\ mpc = "start"
  /\ CASE mfile.kind = "missing" -> mresult' = "FileNotFound" /\ mpc' = "done"
       [] mfile.kind \in {"unreadable", "garbage"} ->
            mresult' = "FailedToOpen" /\ mpc' = "done"
       [] mfile.kind = "ET_EXEC" -> mresult' = "NotDynamicObject" /\ mpc' = "done"
       [] OTHER -> mpc' = "collect" /\ UNCHANGED mresult
  /\ UNCHANGED << lvars, xvars, svars, avars, dvars, mfile, mseg, image >>

\* MemoryMapping::new: the load commands, the assert on the alignment and
\* load_commands[0]
MapCollect ==
  /\ mpc = "collect"
  /\ IF LoadAlignment(mfile.segs) > PageSize
     THEN mresult' = "assert_panic" /\ mpc' = "done"
     ELSE IF Len(Cmds) = 0
     THEN mresult' = "index_panic" /\ mpc' = "done"
     ELSE mpc' = "reserve" /\ UNCHANGED mresult
  /\ UNCHANGED << lvars, xvars, svars, avars, dvars, mfile, mseg, image >>

\* MemoryMapping::new: "Reserve enough pages to contain all the mapped
\* program headers"
MapReserve ==
  /\ mpc = "reserve"
  /\ \E fails \in BOOLEAN, ub \in {"EINVAL", "abort"} :
       IF MappingSize(Cmds) = 0 /\ ub = "abort"
       THEN mresult' = "abort" /\ mpc' = "done" /\ UNCHANGED << image, mseg >>
       ELSE IF MappingSize(Cmds) = 0 \/ fails
       THEN mresult' = "MemoryMapFailed" /\ mpc' = "done" /\ UNCHANGED << image, mseg >>
       ELSE /\ image' = MmapReserve(MappingSize(Cmds))
            /\ mseg' = 1 /\ mpc' = "segment"
            /\ UNCHANGED mresult
  /\ UNCHANGED << lvars, xvars, svars, avars, dvars, mfile >>

\* MemoryMapping::new: one load command mapped, or the failure that unmaps
\* the reservation and returns the error
MapSegment ==
  /\ mpc = "segment" /\ mseg <= Len(Cmds)
  /\ \E fail \in 0..5, ub \in {"EINVAL", "abort"} :
     \E r \in {MapSegmentBody(image, Cmds, mseg, fail, ub)} :
       CASE r.outcome = "ok" ->
              image' = r.img /\ mseg' = mseg + 1 /\ UNCHANGED << mpc, mresult >>
         [] r.outcome = "err" ->
              /\ image' = r.img /\ mpc' = "done" /\ mresult' = "MemoryMapFailed"
              /\ UNCHANGED mseg
         [] OTHER ->
              /\ image' = r.img /\ mpc' = "done" /\ mresult' = r.outcome
              /\ UNCHANGED mseg
  /\ UNCHANGED << lvars, xvars, svars, avars, dvars, mfile >>

\* MemoryMapping::new returns Ok(Self { base, size })
MapReturn ==
  /\ mpc = "segment" /\ mseg > Len(Cmds)
  /\ mpc' = "mapped"
  /\ UNCHANGED << lvars, xvars, svars, avars, dvars, mfile, mseg, image, mresult >>

\* JNI::new after the mapping: base_virtual_address and the boxed loader
JNINewFinish ==
  /\ mpc = "mapped"
  /\ mresult' = "Ok" /\ mpc' = "done"
  /\ UNCHANGED << lvars, xvars, svars, avars, dvars, mfile, mseg, image >>

\* Drop for MemoryMapping, when the loader JNI::new returned is dropped:
\* munmap(self.base, self.size)
DropMapping ==
  /\ mpc = "done" /\ mresult = "Ok"
  /\ image' = Munmap(image, MappingBase, MappingSize(Cmds)) /\ mpc' = "dropped"
  /\ UNCHANGED << lvars, xvars, svars, avars, dvars, mfile, mseg, mresult >>

\* ------------------------------------------------------------ path resolver
MaxCandidates == 2               \* directories of the file system that hold the name

\* The directories a request can name, and the system directories
UserDirs == {"p", "q", "r"}
SystemDirs == {"/lib64/", "/usr/lib64/", "/lib32/", "/usr/lib32/", "/lib/", "/usr/lib/"}

\* What a directory holds of the library name: the file itself ("direct"),
\* the file in an immediate subdirectory ("sub"), both, or nothing; a
\* directory that holds nothing is missing, empty or a regular file.
Holding == {"direct", "sub", "both"}
FileSystems ==
  {[d \in UserDirs \cup SystemDirs |-> IF d \in DOMAIN f THEN f[d] ELSE rest] :
     f \in UNION {[S -> Holding] :
                    S \in {T \in SUBSET (UserDirs \cup SystemDirs) :
                             Cardinality(T) <= MaxCandidates}},
     rest \in {"missing", "empty", "file"}}

\* LD_LIBRARY_PATH as the host's environment holds it: a string of
\* directory names, tokens and separators
LdStrings ==
  {None, Some(<< "r" >>), Some(<< "p", ":", "r" >>), Some(<< "r", ";", "p" >>),
   Some(<< "$ORIGIN", ":", "r" >>)}

Requests ==
  [extra : {None, Some(<< "p" >>), Some(<< "q", "p" >>)},
   parent : {None, Some("q")},
   ld : LdStrings,
   runpath : {None, Some("r")},
   width : {"64", "32"}]

\* Variant: check_directory looks into the subdirectories first
check_directory_SubFirst(fs, directory) ==
  LET kind == IF directory \in DOMAIN fs THEN fs[directory] ELSE "missing" IN
  IF kind \in {"sub", "both"} THEN Some([dir |-> directory, via |-> "sub"])
  ELSE IF kind = "direct" THEN Some([dir |-> directory, via |-> "direct"])
  ELSE None
\* check_directory: the file in the directory, else the file in one of its
\* immediate subdirectories
check_directory(fs, directory) ==
  LET kind == IF directory \in DOMAIN fs THEN fs[directory] ELSE "missing" IN
  IF kind = "missing" THEN None
  ELSE IF kind \in {"direct", "both"} THEN Some([dir |-> directory, via |-> "direct"])
  ELSE IF kind = "file" THEN None
  ELSE IF kind = "sub" THEN Some([dir |-> directory, via |-> "sub"])
  ELSE None

\* replace_tokens: $ORIGIN becomes the parent directory when there is one
replace_tokens(str, parent_path) ==
  [i \in 1..Len(str) |->
     IF str[i] = "$ORIGIN" /\ IsSome(parent_path) THEN Unwrap(parent_path) ELSE str[i]]

\* str.split(sep): the pieces between the separators
RECURSIVE SplitAt(_, _, _, _)
SplitAt(str, sep, i, piece) ==
  IF i > Len(str) THEN << piece >>
  ELSE IF str[i] = sep THEN << piece >> \o SplitAt(str, sep, i + 1, << >>)
  ELSE SplitAt(str, sep, i + 1, Append(piece, str[i]))

\* A piece of the string as a path: one directory name, or a path that
\* names nothing
PathBufFrom(piece) == IF Len(piece) = 1 THEN piece[1] ELSE "?"

\* split_paths: at ':' when the string holds one, else at ';' when it holds
\* one, else the whole string
split_paths(input) ==
  LET Has(c) == \E i \in 1..Len(input) : input[i] = c
      pieces == IF Has(":") THEN SplitAt(input, ":", 1, << >>)
                ELSE IF Has(";") THEN SplitAt(input, ";", 1, << >>)
                ELSE << input >>
  IN [i \in 1..Len(pieces) |-> PathBufFrom(pieces[i])]

\* "for path in ..": the first directory of a list in which
\* check_directory finds the name
RECURSIVE FirstChecked(_, _, _)
FirstChecked(fs, paths, i) ==
  IF i > Len(paths) THEN None
  ELSE IF IsSome(check_directory(fs, paths[i])) THEN check_directory(fs, paths[i])
  ELSE FirstChecked(fs, paths, i + 1)

\* locate_library_internal
locate_library_internal(fs, extra_paths, parent_path, ld_library_path, dt_runpath, width) ==
  LET e == IF IsSome(extra_paths) THEN FirstChecked(fs, Unwrap(extra_paths), 1) ELSE None
      p == IF IsSome(parent_path) THEN check_directory(fs, Unwrap(parent_path)) ELSE None
      l == IF IsSome(ld_library_path)
           THEN FirstChecked(fs, split_paths(replace_tokens(Unwrap(ld_library_path),
                                                            parent_path)), 1)
           ELSE None
      r == IF IsSome(dt_runpath) THEN check_directory(fs, Unwrap(dt_runpath)) ELSE None
      w == IF width = "64" THEN FirstChecked(fs, << "/lib64/", "/usr/lib64/" >>, 1)
           ELSE FirstChecked(fs, << "/lib32/", "/usr/lib32/" >>, 1)
      s == FirstChecked(fs, << "/lib/", "/usr/lib/" >>, 1)
  IN IF IsSome(e) THEN e
     ELSE IF IsSome(p) THEN p
     ELSE IF IsSome(l) THEN l
     ELSE IF IsSome(r) THEN r
     ELSE IF IsSome(w) THEN w
     ELSE s

\* The host, or load_dependencies, resolves the library name
Locate ==
  /\ lpc = "call"
  /\ lpc' = "returned"
  /\ lfound' = locate_library_internal(lfs, lreq.extra, lreq.parent, lreq.ld,
                                       lreq.runpath, lreq.width)
  /\ UNCHANGED << lvars, mvars, svars, avars, dvars, lfs, lreq >>

\* The host drops the path it was given
LocateDone ==
  /\ lpc = "returned"
  /\ lreq' = << >> /\ lfs' = << >> /\ lpc' = "idle" /\ lfound' = None
  /\ UNCHANGED << lvars, mvars, svars, avars, dvars >>

\* -------------------------------------------------------------- dl-API stub
TRAMPOLINE_SIZE == 64

JniPointers == {"jni_a", "jni_b", "jni_c"}
StubPageSizes == {4096, 16384, 65536}

\* The input of DlopenSymbols::new: the JNI pointer, and what
\* sysconf(PAGE_SIZE) gives (an error, no value, or the page size)
StubRequests ==
  {r \in [jni : JniPointers, sysconf : {"Err", "None", "Some"}, page_size : StubPageSizes] :
     r.sysconf # "Some" => r.page_size = 4096}

\* jni_dlopen_callback, jni_dlsym_callback, jni_dlclose_callback
StubCallbacks == << "jni_dlopen_callback", "jni_dlsym_callback", "jni_dlclose_callback" >>

\* "let mapping_size = (space_needed + page_size - 1) & !(page_size - 1)"
StubMappingSize(page_size) ==
  (((3 * TRAMPOLINE_SIZE) + page_size - 1) \div page_size) * page_size

NoPage == [mapped |-> FALSE, size |-> 0, prot |-> {}, thunks |-> << >>]

\* sysconf(PAGE_SIZE) and its two error returns
StubCall ==
  /\ stub_pc = "call"
  /\ IF stub_req.sysconf = "Some"
     THEN stub_pc' = "mmap" /\ UNCHANGED stub_result
     ELSE stub_pc' = "done" /\ stub_result' = "MemoryMapFailed"
  /\ UNCHANGED << lvars, mvars, xvars, avars, dvars, stub_req, stub_step, stub_page >>

\* mmap(None, mapping_size, PROT_READ | PROT_WRITE | PROT_EXEC,
\* MAP_PRIVATE | MAP_ANONYMOUS): a zeroed page, or Err(errno)
StubMmap ==
  /\ stub_pc = "mmap"
  /\ \E ok \in BOOLEAN :
       IF ok
       THEN /\ stub_page' = [mapped |-> TRUE,
                             size |-> StubMappingSize(stub_req.page_size),
                             prot |-> {"r", "w", "x"},
                             thunks |-> [k \in 1..3 |->
                                           [code |-> FALSE, jni |-> "zero", fn |-> "zero"]]]
            /\ stub_pc' = "write"
            /\ UNCHANGED stub_result
       ELSE /\ stub_pc' = "done" /\ stub_result' = "MemoryMapFailed"
            /\ UNCHANGED stub_page
  /\ UNCHANGED << lvars, mvars, xvars, avars, dvars, stub_req, stub_step >>

\* The nine writes, three for each thunk k at mapping_base + (k - 1) *
\* TRAMPOLINE_SIZE: the memcpy of the trampoline (its two placeholder quads
\* and its code), the store of jni in the thunk's first quad, the store of
\* the callback in its second.  A store to a page that is not writable faults.
StubWrite ==
  /\ stub_pc = "write"
  /\ LET k == (stub_step \div 3) + 1
         what == stub_step % 3
         old == stub_page.thunks[k]
         new == CASE what = 0 -> [code |-> TRUE, jni |-> "placeholder", fn |-> "placeholder"]
                  [] what = 1 -> [old EXCEPT !.jni = stub_req.jni]
                  [] OTHER -> [old EXCEPT !.fn = StubCallbacks[k]]
     IN IF "w" \in stub_page.prot
        THEN /\ stub_page' = [stub_page EXCEPT !.thunks[k] = new]
             /\ stub_step' = stub_step + 1
             /\ stub_pc' = IF stub_step + 1 = 9 THEN "mprotect" ELSE "write"
             /\ UNCHANGED stub_result
        ELSE /\ stub_pc' = "done" /\ stub_result' = "SIGSEGV"
             /\ UNCHANGED << stub_page, stub_step >>
  /\ UNCHANGED << lvars, mvars, xvars, avars, dvars, stub_req >>

\* mprotect(mapping_base, mapping_size, PROT_READ | PROT_EXEC); on Err the
\* page is unmapped and the error returned
StubMprotect ==
  /\ stub_pc = "mprotect"
  /\ \E ok \in BOOLEAN :
       IF ok
       THEN /\ stub_page' = [stub_page EXCEPT !.prot = {"r", "x"}]
            /\ stub_result' = "Ok"
       ELSE /\ stub_page' = NoPage
            /\ stub_result' = "MemoryMapFailed"
  /\ stub_pc' = "done"
  /\ UNCHANGED << lvars, mvars, xvars, avars, dvars, stub_req, stub_step >>

\* Drop for DlopenSymbols
StubDrop ==
  /\ stub_pc = "done" /\ stub_result = "Ok"
  /\ stub_page' = NoPage
  /\ stub_pc' = "dropped"
  /\ UNCHANGED << lvars, mvars, xvars, avars, dvars, stub_req, stub_step, stub_result >>

\* ---------------------------------------------------- relocation arithmetic
RelocTypes == {"R64", "PC32", "GLOB_DAT", "JUMP_SLOT", "RELATIVE", "NONE", "COPY"}
SymbolAddrs == {8, 4200, 65528}
Addends == {0 - 16, 0 - 8, 0, 8, 16}
TargetAddrs == {4160, 4240}

\* One relocation of an x86_64 object whose image is at ImageStride: its
\* type, the symbol address S, the addend A, the target address P, and
\* whether the build checks integer overflow (the dev and test profiles do,
\* the release profile does not)
RelocInputs ==
  [rel_type : RelocTypes, S : SymbolAddrs, A : Addends, P : TargetAddrs,
   overflow_checks : BOOLEAN]

Panicked == [k |-> "panic", v |-> 0, bits |-> 0]
Written(v, bits) == [k |-> "write", v |-> v, bits |-> bits]
NothingWritten == [k |-> "none", v |-> 0, bits |-> 0]

\* usize + usize and usize - usize as the build compiles them
usize_add(a, b, overflow_checks) ==
  IF overflow_checks /\ a + b >= WordMod THEN Panicked ELSE Written((a + b) % WordMod, 64)
usize_sub(a, b, overflow_checks) ==
  IF overflow_checks /\ a < b THEN Panicked ELSE Written((a - b) % WordMod, 64)

\* add_addend, as the build compiles it
add_addend_build(addr, addend, overflow_checks) ==
  IF addend < 0 THEN usize_sub(addr, 0 - addend, overflow_checks)
  ELSE usize_add(addr, addend, overflow_checks)

\* The arm of "match relocation.rel_type" (target_arch = "x86_64") for the
\* relocation i
x86_64_relocation(i) ==
  LET sum == add_addend_build(i.S, i.A, i.overflow_checks) IN
  CASE i.rel_type = "R64" -> sum
    [] i.rel_type = "PC32" ->
         IF sum.k = "panic" THEN Panicked
         ELSE LET diff == usize_sub(sum.v, i.P, i.overflow_checks) IN
              IF diff.k = "panic" THEN Panicked ELSE Written(diff.v % HalfMod, 32)
    [] i.rel_type \in {"GLOB_DAT", "JUMP_SLOT"} -> Written(i.S, 64)
    [] i.rel_type = "RELATIVE" -> add_addend_build(ImageStride, i.A, i.overflow_checks)
    [] OTHER -> NothingWritten

\* One iteration of the "for relocation in relocations" loop
ApplyX86Relocation ==
  /\ reloc_in # None /\ reloc_out = None
  /\ reloc_out' = Some(x86_64_relocation(Unwrap(reloc_in)))
  /\ UNCHANGED << lvars, mvars, xvars, svars, dvars, reloc_in >>

\* The loop goes on to the next relocation
NextRelocation ==
  /\ reloc_out # None /\ Unwrap(reloc_out).k # "panic"
  /\ \E i \in RelocInputs : reloc_in' = Some(i)
  /\ reloc_out' = None
  /\ UNCHANGED << lvars, mvars, xvars, svars, dvars >>

\* ------------------------------------------------- the registry of debug.rs
\* The threads that call into debug.rs, the base addresses they pass, and
\* the number of CStrings a run allocates
DebugThreads == {1, 2}
BaseAddresses == {65536, 131072}
MaxNames == 3

DebugIdle == [pc |-> "idle", base |-> 0, nul |-> FALSE, name_ptr |-> 0]

\* add_library: LIBRARIES.lock().unwrap(); nul: the name holds a 0 byte
AddLibraryLock(t) ==
  /\ dbg[t].pc = "idle" /\ libraries_guard = 0 /\ cstrings < MaxNames
  /\ \E b \in BaseAddresses, nul \in BOOLEAN :
       dbg' = [dbg EXCEPT ![t] = [pc |-> "add_locked", base |-> b, nul |-> nul,
                                  name_ptr |-> 0]]
  /\ libraries_guard' = t
  /\ UNCHANGED << lvars, mvars, xvars, svars, avars, LIBRARIES, cstrings >>

\* add_library under the lock: CString::new(..)? returns the error, or the
\* name is inserted at base_address (an entry it replaces is dropped) and
\* name_ptr points into the inserted CString; then drop(libraries)
AddLibraryInsert(t) ==
  /\ dbg[t].pc = "add_locked"
  /\ libraries_guard' = 0
  /\ IF dbg[t].nul
     THEN /\ dbg' = [dbg EXCEPT ![t] = DebugIdle]
          /\ UNCHANGED << LIBRARIES, cstrings >>
     ELSE /\ cstrings' = cstrings + 1
          /\ LIBRARIES' = [LIBRARIES EXCEPT ![dbg[t].base] = cstrings + 1]
          /\ dbg' = [dbg EXCEPT ![t] = [@ EXCEPT !.pc = "add_unlocked",
                                                 !.name_ptr = cstrings + 1]]
  /\ UNCHANGED << lvars, mvars, xvars, svars, avars >>

\* add_library: the call jni_loader_lib_loaded(base_address, name_ptr)
AddLibraryHook(t) ==
  /\ dbg[t].pc = "add_unlocked"
  /\ dbg' = [dbg EXCEPT ![t] = [@ EXCEPT !.pc = "hook"]]
  /\ UNCHANGED << lvars, mvars, xvars, svars, avars, LIBRARIES, libraries_guard, cstrings >>

\* jni_loader_lib_loaded returns and add_library returns Ok(())
LibLoadedReturn(t) ==
  /\ dbg[t].pc = "hook"
  /\ dbg' = [dbg EXCEPT ![t] = DebugIdle]
  /\ UNCHANGED << lvars, mvars, xvars, svars, avars, LIBRARIES, libraries_guard, cstrings >>

\* remove_library: LIBRARIES.lock().unwrap()
RemoveLibraryLock(t) ==
  /\ dbg[t].pc = "idle" /\ libraries_guard = 0
  /\ \E b \in BaseAddresses :
       dbg' = [dbg EXCEPT ![t] = [DebugIdle EXCEPT !.pc = "remove_locked", !.base = b]]
  /\ libraries_guard' = t
  /\ UNCHANGED << lvars, mvars, xvars, svars, avars, LIBRARIES, cstrings >>

\* remove_library: the entry is removed and its CString dropped; the guard
\* is dropped at the return
RemoveLibrary(t) ==
  /\ dbg[t].pc = "remove_locked"
  /\ LIBRARIES' = [LIBRARIES EXCEPT ![dbg[t].base] = 0]
  /\ libraries_guard' = 0
  /\ dbg' = [dbg EXCEPT ![t] = DebugIdle]
  /\ UNCHANGED << lvars, mvars, xvars, svars, avars, cstrings >>

\* jni_loader_iter_libs: LIBRARIES.lock().unwrap()
IterLibsLock(t) ==
  /\ dbg[t].pc = "idle" /\ libraries_guard = 0
  /\ dbg' = [dbg EXCEPT ![t] = [DebugIdle EXCEPT !.pc = "iter_locked"]]
  /\ libraries_guard' = t
  /\ UNCHANGED << lvars, mvars, xvars, svars, avars, LIBRARIES, cstrings >>

\* jni_loader_iter_libs: the callback runs on the collected entries with the
\* lock held, and the guard is dropped at the return
IterLibsCallback(t) ==
  /\ dbg[t].pc = "iter_locked"
  /\ libraries_guard' = 0
  /\ dbg' = [dbg EXCEPT ![t] = DebugIdle]
  /\ UNCHANGED << lvars, mvars, xvars, svars, avars, LIBRARIES, cstrings >>

\* ------------------------------------------------------------ specification
InitLoaders ==
  /\ lib = [l \in Loaders |-> IF l \in HostLoaders THEN HostOrder[l] ELSE ""]
  /\ deps = [l \in Loaders |-> << >>]
  /\ registered = [l \in Loaders |-> << >>]
  /\ loaded_dependencies = [l \in Loaders |-> FALSE]
  /\ have_been_initialized = [l \in Loaders |-> FALSE]
  /\ looking_for_symbol = [l \in Loaders |-> FALSE]
  /\ symbol_overrides = [l \in Loaders |-> << >>]
  /\ mem = [l \in Loaders |-> FreshMem(IF l \in HostLoaders THEN HostOrder[l] ELSE "")]
  /\ mutex = [l \in Loaders |-> 0]
  /\ stack = [t \in Threads |-> << >>]
  /\ status = [t \in Threads |-> "ok"]
  /\ relocRuns = [l \in Loaders |-> 0]
  /\ bound = [l \in Loaders |-> FreshBound(IF l \in HostLoaders THEN HostOrder[l] ELSE "")]
  /\ ovAtInit = [l \in Loaders |-> << >>]
  /\ ret = NoRet

\* No JNI::new call is under way
InitNoCall ==
  /\ mfile = [kind |-> "ET_DYN", segs |-> << >>]
  /\ mpc = "idle" /\ mseg = 0 /\ image = << >> /\ mresult = "none"

\* No path is being resolved
InitNoLocate ==
  /\ lfs = << >> /\ lreq = << >> /\ lpc = "idle" /\ lfound = None

\* No DlopenSymbols::new call is under way
InitNoStub ==
  /\ stub_req = [jni |-> "", sysconf |-> "", page_size |-> 0]
  /\ stub_pc = "idle" /\ stub_step = 0 /\ stub_page = NoPage /\ stub_result = "none"

\* No call of debug.rs is under way and the registry is empty
InitNoRegistry ==
  /\ LIBRARIES = [b \in BaseAddresses |-> 0]
  /\ libraries_guard = 0 /\ cstrings = 0
  /\ dbg = [t \in DebugThreads |-> DebugIdle]

\* No relocation is being looked at
InitNoRelocation == reloc_in = None /\ reloc_out = None

InitCommon ==
  /\ arch \in {"x86_64", "aarch64"}
  /\ inline_asm \in BOOLEAN
  /\ InitLoaders
  /\ InitNoCall
  /\ InitNoLocate
  /\ InitNoStub
  /\ InitNoRelocation
  /\ InitNoRegistry

Init == InitCommon /\ quirk = "none"

InitQ == InitCommon /\ quirk \in {"none", "unnamed"}

\* The same with a .rela.plt entry of libA that carries an addend
InitPlt == InitCommon /\ quirk \in {"none", "addend"}

\* Linking: the host registers dependencies and overrides, initializes and
\* runs guest code.
Next ==
  \E t \in Threads :
    \/ TakeResult(t)
    \/ AddDependency(t)
    \/ OverrideSymbol(t)
    \/ CallInitialize(t)
    \/ InitSkipNone(t)
    \/ InitLockDep(t)
    \/ InitSelfLock(t)
    \/ InitRelocate(t)
    \/ InitReturn(t)
    \/ PltCallback(t)

Spec == Init /\ [][Next]_vars

\* Two instances of libA, each with a libC instance of its own as its
\* dependency (examples/dlopen: load_wrapper called twice)
InitTwo ==
  /\ arch \in {"x86_64", "aarch64"}
  /\ inline_asm \in BOOLEAN
  /\ quirk = "none"
  /\ lib = [l \in Loaders |-> IF l \in {1, 2} THEN "libA"
                               ELSE IF l \in {3, 4} THEN "libC" ELSE ""]
  /\ deps = [l \in Loaders |-> IF l \in {1, 2}
                                THEN << [name |-> "libC", dep |-> l + 2] >>
                                ELSE << >>]
  /\ registered = [l \in Loaders |-> IF l \in {1, 2} THEN << "libC" >> ELSE << >>]
  /\ loaded_dependencies = [l \in Loaders |-> FALSE]
  /\ have_been_initialized = [l \in Loaders |-> FALSE]
  /\ looking_for_symbol = [l \in Loaders |-> FALSE]
  /\ symbol_overrides = [l \in Loaders |-> << >>]
  /\ mem = [l \in Loaders |-> FreshMem(IF l \in {1, 2} THEN "libA"
                                        ELSE IF l \in {3, 4} THEN "libC" ELSE "")]
  /\ mutex = [l \in Loaders |-> 0]
  /\ stack = [t \in Threads |-> << >>]
  /\ status = [t \in Threads |-> "ok"]
  /\ relocRuns = [l \in Loaders |-> 0]
  /\ bound = [l \in Loaders |-> FreshBound(IF l \in {1, 2} THEN "libA"
                                            ELSE IF l \in {3, 4} THEN "libC" ELSE "")]
  /\ ovAtInit = [l \in Loaders |-> << >>]
  /\ ret = NoRet
  /\ InitNoCall
  /\ InitNoLocate
  /\ InitNoStub
  /\ InitNoRelocation
  /\ InitNoRegistry

\* The host overrides symbols of the two instances, initializes them and
\* runs their code; it registers no further dependency.
NextTwo ==
  \E t \in Threads :
    \/ TakeResult(t)
    \/ OverrideSymbol(t)
    \/ CallInitialize(t)
    \/ InitLockDep(t)
    \/ InitRelocate(t)
    \/ InitReturn(t)
    \/ PltCallback(t)

SpecTwo == InitTwo /\ [][NextTwo]_vars

\* Linking an object whose .got.plt has fewer than three entries
InitGot == InitCommon /\ quirk \in {"none", "shortgot"}

SpecGot == InitGot /\ [][Next]_vars

\* Linking an object whose .rela.plt entry carries an addend
SpecPlt == InitPlt /\ [][Next]_vars

SpecQ == InitQ /\ [][Next]_vars

\* Dependency discovery: the host registers dependencies and calls
\* load_dependencies.
NextLoad ==
  \E t \in Threads :
    \/ TakeResult(t)
    \/ AddDependency(t)
    \/ LoadDependencies(t)

SpecLoad == Init /\ [][NextLoad]_vars

\* Symbol lookup: the host registers dependencies and asks for symbols.
NextSym ==
  \E t \in Threads :
    \/ TakeResult(t)
    \/ AddDependency(t)
    \/ GetSymbol(t)

SpecSym == Init /\ [][NextSym]_vars

\* Loading one file: JNI::new on a path, and the drop of the loader it made.
InitMap ==
  /\ arch = "x86_64" /\ inline_asm = FALSE /\ quirk = "none"
  /\ InitLoaders
  /\ mfile \in Files
  /\ mpc = "start" /\ mseg = 0 /\ image = << >> /\ mresult = "none"
  /\ InitNoLocate
  /\ InitNoStub
  /\ InitNoRelocation
  /\ InitNoRegistry

NextMap ==
  \/ JNINew
  \/ MapCollect
  \/ MapReserve
  \/ MapSegment
  \/ MapReturn
  \/ JNINewFinish
  \/ DropMapping

SpecMap == InitMap /\ [][NextMap]_vars

\* Path resolution: one call of locate_library_internal
InitLocate ==
  /\ arch = "x86_64" /\ inline_asm = FALSE /\ quirk = "none"
  /\ InitLoaders
  /\ InitNoCall
  /\ lfs \in FileSystems /\ lreq \in Requests /\ lpc = "call" /\ lfound = None
  /\ InitNoStub
  /\ InitNoRelocation
  /\ InitNoRegistry

NextLocate ==
  \/ Locate
  \/ LocateDone

SpecLocate == InitLocate /\ [][NextLocate]_vars

\* ------------------------------------------------------------------ claims
\* The relocation pass and PLT set-up of l ran to their end
Done(l) ==
  /\ relocRuns[l] >= 1
  /\ \A t \in Threads : \A i \in 1..Len(stack[t]) :
       stack[t][i].self = l => stack[t][i].pc = "ret"

\* The GLOB_DAT / JUMP_SLOT relocations of l in a list of relocations that
\* name a symbol for which an override Some(a) was registered before
\* initialize
Overridden(l, relocs) ==
  {i \in 1..Len(relocs) :
     /\ relocs[i].rel_type \in {"GLOB_DAT", "JUMP_SLOT"}
     /\ SymbolNameAt(l, relocs[i].symbol) \in DOMAIN ovAtInit[l]
     /\ IsSome(ovAtInit[l][SymbolNameAt(l, relocs[i].symbol)])}

\* The loaders reachable from l through dependency handles
Reach(l) ==
  LET Step(S) == S \cup {d \in Created : \E x \in S : \E i \in 1..Len(deps[x]) :
                                            deps[x][i].dep = d}
  IN Step(Step(Step(Step({l}))))

\* C1: initialize is idempotent.  A call of initialize on a loader whose
\* have_been_initialized flag is set returns at once: it changes no image
\* word, binding, dependency or override, and the relocation pass of a
\* loader never runs a second time.
C1_InitializeIdempotent ==
  [][\A t \in Threads :
       /\ (/\ Len(stack'[t]) = Len(stack[t]) + 1
           /\ have_been_initialized[stack'[t][Len(stack'[t])].self])
          => /\ stack'[t][Len(stack'[t])].pc = "ret"
             /\ UNCHANGED << mem, bound, relocRuns, deps, symbol_overrides, lib >>
       /\ \A l \in Loaders : relocRuns'[l] <= 1]_vars

\* C1 witness: a second initialize call is in progress on a loader that ran
\* its relocation pass and whose overrides were changed since.
C1_Witness ==
  \E t \in Threads :
    /\ stack[t] # << >> /\ Top(t).again
    /\ relocRuns[Top(t).self] = 1
    /\ symbol_overrides[Top(t).self] # ovAtInit[Top(t).self]

\* C2: in the diamond A -> {B, C}, B -> C with one shared handle of C,
\* initialize on A never tries to lock a mutex its own thread holds, and once
\* it has returned C's relocation pass has run exactly once.
C2_Diamond ==
  /\ DepKeys(deps[1]) = {"libB", "libC"}
  /\ DepGet(deps[1], "libB") = 2 /\ DepGet(deps[1], "libC") = 3
  /\ deps[2] = << [name |-> "libC", dep |-> 3] >>
  /\ deps[3] = << >>

C2_DiamondInitialize ==
  C2_Diamond =>
    \A t \in Threads :
      /\ status[t] \notin {"deadlock", "lock_panic"}
      /\ (Running(t) /\ Top(t).pc = "deps" /\ Top(t).todo # << >>
            /\ Head(Top(t).todo) # NoDep)
         => mutex[Head(Top(t).todo)] # t
      /\ relocRuns[3] <= 1
      /\ (stack[t] = << >> /\ have_been_initialized[1])
         => /\ relocRuns[3] = 1 /\ relocRuns[2] = 1 /\ relocRuns[1] = 1
            /\ \A l \in {1, 2, 3} : mutex[l] = 0

\* C2 witness: initialize on A has returned in the diamond
C2_Witness ==
  /\ C2_Diamond
  /\ \A t \in Threads : stack[t] = << >> /\ status[t] = "ok"
  /\ have_been_initialized[1] /\ relocRuns[1] = 1 /\ relocRuns[3] = 1

\* C3 (as stated): after initialize returns, every slot targeted by a
\* GLOB_DAT or JUMP_SLOT relocation, in .rel{,a}.dyn or .rel{,a}.plt, against
\* a symbol whose override Some(a) was registered before, reads a.
C3_Original ==
  \A l \in Created :
    Done(l) =>
      LET relocs == RelDynOf(l) \o RelPltOf(l) IN
      \A i \in Overridden(l, relocs) :
        mem[l][relocs[i].offset] = Unwrap(ovAtInit[l][SymbolNameAt(l, relocs[i].symbol)])

\* C3 (amended): after initialize returns, such a slot of .rel{,a}.dyn, and
\* of .rel{,a}.plt in a build without the inline-asm feature, reads a on
\* x86_64 and a plus the relocation's addend on aarch64.  With the feature a
\* slot of .rel{,a}.plt holds its rebased file word until the PLT callback
\* binds it, and the callback writes the override of that moment plus the
\* addend.
C3_OverrideBinds ==
  \A l \in Created :
    Done(l) =>
      /\ LET relocs == Relocations(l) IN
         \A i \in Overridden(l, relocs) :
           LET a == Unwrap(ovAtInit[l][SymbolNameAt(l, relocs[i].symbol)]) IN
           mem[l][relocs[i].offset] =
             IF arch = "x86_64" THEN a ELSE add_addend(a, relocs[i].addend)
      /\ inline_asm =>
           \A i \in 1..Len(RelPltOf(l)) :
             LET r == RelPltOf(l)[i]
                 b == bound[l][r.offset]
             IN IF ~IsSome(b) THEN mem[l][r.offset] = get_offset(l, FileVal(r.offset))
                ELSE /\ Unwrap(b).by = "lazy"
                     /\ mem[l][r.offset] = add_addend(Unwrap(b).S, r.addend)
                     /\ Unwrap(b).ov = "some" => Unwrap(b).S = HostFn

\* C3 witness: an initialized loader with a GLOB_DAT slot bound to the
\* override address
C3_Witness ==
  \E l \in Created :
    /\ Done(l)
    /\ \E i \in Overridden(l, RelDynOf(l)) :
         /\ RelDynOf(l)[i].addend # 0
         /\ mem[l][RelDynOf(l)[i].offset] \in {HostFn, add_addend(HostFn, RelDynOf(l)[i].addend)}

\* C4: a symbol overridden with None resolves, by index, to the sentinel
\* UNDEFINED_SYMBOL_VALUE (0xBABECAFE), in the eager pass and in the PLT
\* callback alike, and no global search is made for it.
C4_NoneOverrideSentinel ==
  /\ \A l \in Created : \A o \in DOMAIN bound[l] :
       (IsSome(bound[l][o]) /\ Unwrap(bound[l][o]).ov = "none")
         => /\ Unwrap(bound[l][o]).S = UNDEFINED_SYMBOL_VALUE
            /\ ~Unwrap(bound[l][o]).global
  /\ \A l \in Created : \A i \in 1..(Len(Elf(l).dynsym) - 1) :
       OverrideKind(l, SymbolNameAt(l, i)) = "none"
         => /\ find_local_symbol_by_index(l, i, TRUE)[1].address
                 = Some(UNDEFINED_SYMBOL_VALUE)
            /\ reloc_needs_symbol(l, Rel(0, "GLOB_DAT", i, 0), {l})
                 = [k |-> "addr", a |-> UNDEFINED_SYMBOL_VALUE, global |-> FALSE]
            /\ resolve_plt_symbol(l, i, {l})
                 = [k |-> "addr", a |-> UNDEFINED_SYMBOL_VALUE, global |-> FALSE]

\* C4 witness: a slot was bound while its symbol was overridden with None,
\* by the eager pass or by the PLT callback
C4_Witness ==
  \E l \in Created : \E o \in DOMAIN bound[l] :
    /\ IsSome(bound[l][o]) /\ Unwrap(bound[l][o]).ov = "none"
    /\ mem[l][o] \in {UNDEFINED_SYMBOL_VALUE, UNDEFINED_SYMBOL_VALUE + 8}

\* C5: load_dependencies is idempotent: a call on a loader whose
\* loaded_dependencies flag is set changes no dependency entry and creates no
\* loader.
C5_LoadIdempotent ==
  [][\A l \in HostLoaders :
       (ret.op = "" /\ ret'.op = "load_dependencies" /\ ret'.l = l
          /\ loaded_dependencies[l])
       => UNCHANGED << deps, lib, mem, bound >>]_vars

\* C5 witness: a second load_dependencies call on libA has returned
C5_Witness ==
  /\ ret.op = "load_dependencies" /\ ret.l = 1 /\ ret.ok /\ ret.env = << >>
  /\ deps[1] # << >>

C7_GetSymbolAddress ==
  ret.op = "get_symbol" =>
    LET l == ret.l
        Defines(d) == {i \in Elf(d).hashed : Elf(d).dynsym[i + 1].name = ret.name}
        InImage(d) == \E i \in Defines(d) :
                        ret.val = Some(<< (Base(d) + Elf(d).dynsym[i + 1].value
                                             - Elf(d).bva) % WordMod,
                                          Elf(d).dynsym[i + 1].size >>)
    IN IF Defines(l) # {} THEN InImage(l)
       ELSE IF \E d \in Reach(l) : Defines(d) # {}
       THEN \E d \in Reach(l) : InImage(d)
       ELSE ret.val = None

\* C8: a relocation whose symbol cannot be resolved (index 0, index out of
\* range, unresolved STN_UNDEF symbol, undefined symbol without a name)
\* leaves its slot at the file's word, does not panic, and the pass goes on
\* with the next relocation.
C8_UnresolvedSkipped ==
  /\ \A t \in Threads : status[t] # "expect_panic"
  /\ \A l \in Created :
       Done(l) =>
         \A i \in 1..Len(Relocations(l)) :
           LET r == Relocations(l)[i] IN
           /\ (NeedsSymbol(r.rel_type) /\ ~IsSome(bound[l][r.offset]))
                => mem[l][r.offset] = FileVal(r.offset)
           /\ r.rel_type = "RELATIVE"
                => mem[l][r.offset] = add_addend(Base(l), r.addend)

\* C9: JNI::new never aborts the host: whatever the file, it returns a
\* loader or an error value, also when the largest PT_LOAD p_align exceeds
\* the page size and when the file has no PT_LOAD at all.
C9_NewNeverAborts ==
  mpc \in {"done", "dropped"} =>
    /\ mresult \in {"Ok", "FileNotFound", "FailedToOpen", "NotDynamicObject",
                    "MemoryMapFailed"}
    /\ mfile.kind = "missing" => mresult = "FileNotFound"
    /\ mfile.kind = "ET_EXEC" => mresult = "NotDynamicObject"

\* C10: once MemoryMapping::new has returned Ok, every byte of the image at
\* [p_vaddr + p_filesz, p_vaddr + p_memsz) of every PT_LOAD reads zero.
C10_BssZero ==
  mpc = "mapped" =>
    \A i \in 1..Len(mfile.segs) :
      \A a \in (mfile.segs[i].p_vaddr + mfile.segs[i].p_filesz)
                 ..(mfile.segs[i].p_vaddr + mfile.segs[i].p_memsz - 1) :
        ByteAt(image, MappingBase + a - VirtualMappingBase(Cmds)) = 0


\* The PT_LOAD headers whose page-aligned range
\* [align_down(p_vaddr), align_up(p_vaddr + p_memsz)) covers page p
Covering(p) ==
  {i \in 1..Len(mfile.segs) :
     /\ align_down(mfile.segs[i].p_vaddr, PageSize) - VirtualMappingBase(Cmds)
          <= (p - 1) * PageSize
     /\ (p - 1) * PageSize
          < align_up(mfile.segs[i].p_vaddr + mfile.segs[i].p_memsz, PageSize)
              - VirtualMappingBase(Cmds)}

\* C11: once MemoryMapping::new has returned Ok, the protection of every
\* page of the image is the union of the p_flags of the PT_LOAD headers
\* whose page-aligned range covers the page (none for a page no segment
\* covers), so the write permission granted for zero-filling the tail is
\* not left on a page that only non-writable segments cover.
C11_PagePermissions ==
  mpc = "mapped" =>
    \A p \in 1..Len(image) :
      image[p].prot = UNION {mfile.segs[i].p_flags : i \in Covering(p)}

\* C11 witness: the mapping was returned for a file in which a non-writable
\* and a writable segment share a page, and a page is covered by a
\* non-writable segment alone.
C11_Witness ==
  /\ mpc = "mapped"
  /\ \E p \in 1..Len(image) : \E i, j \in Covering(p) :
       /\ "W" \notin mfile.segs[i].p_flags /\ "W" \in mfile.segs[j].p_flags
       /\ image[p].prot = {"R", "W", "X"}
  /\ \E p \in 1..Len(image) :
       /\ Covering(p) # {}
       /\ \A i \in Covering(p) : "W" \notin mfile.segs[i].p_flags
       /\ "W" \notin image[p].prot

\* C12: the reserved range is not leaked.  When JNI::new has returned an
\* error no page of the range is mapped; while the MemoryMapping it returned
\* is alive the range [base, base + size) is mapped; once that
\* MemoryMapping is dropped no page of the range is mapped.  (A build that
\* aborts the process on a zero-length mmap returns nothing.)
C12_NoLeak ==
  /\ (mpc = "done" /\ mresult \in {"FileNotFound", "FailedToOpen", "NotDynamicObject",
                                    "MemoryMapFailed", "assert_panic", "index_panic"})
       => Mapped(image) = {}
  /\ (mpc = "done" /\ mresult = "Ok")
       => /\ Len(image) * PageSize = MappingSize(Cmds)
          /\ Mapped(image) = 1..Len(image)
  /\ mpc = "dropped" => Mapped(image) = {}

\* C12 witness: a system call of the segment loop failed after an earlier
\* segment had been mapped, and the error was returned
C12_Witness ==
  /\ mpc = "done" /\ mresult = "MemoryMapFailed"
  /\ mseg = 2 /\ Len(image) >= 2

\* The directories of a request in the order the search is specified:
\* extra paths, the parent directory, the LD_LIBRARY_PATH entries,
\* DT_RUNPATH, /lib64 and /usr/lib64 (or /lib32 and /usr/lib32), /lib and
\* /usr/lib
SearchOrder(req) ==
  (IF IsSome(req.extra) THEN Unwrap(req.extra) ELSE << >>)
  \o (IF IsSome(req.parent) THEN << Unwrap(req.parent) >> ELSE << >>)
  \o (IF IsSome(req.ld) THEN split_paths(replace_tokens(Unwrap(req.ld), req.parent))
      ELSE << >>)
  \o (IF IsSome(req.runpath) THEN << Unwrap(req.runpath) >> ELSE << >>)
  \o (IF req.width = "64" THEN << "/lib64/", "/usr/lib64/" >>
      ELSE << "/lib32/", "/usr/lib32/" >>)
  \o << "/lib/", "/usr/lib/" >>

\* The directory holds a candidate: the name, or the name in a subdirectory
HasCandidate(d) == d \in DOMAIN lfs /\ lfs[d] \in Holding

\* C13: locate_library_internal returns the candidate of the first
\* directory of the search order that holds one, the file in the directory
\* itself when it is there and the one of a subdirectory otherwise, and
\* returns None exactly when no directory of the search order holds one.
C13_LocateOrder ==
  lpc = "returned" =>
    LET order == SearchOrder(lreq)
        hits == {i \in 1..Len(order) : HasCandidate(order[i])}
    IN IF hits = {} THEN lfound = None
       ELSE LET i == CHOOSE j \in hits : \A k \in hits : j <= k IN
            lfound = Some([dir |-> order[i],
                           via |-> IF lfs[order[i]] \in {"direct", "both"}
                                   THEN "direct" ELSE "sub"])

\* C13 witness: the first extra path holds nothing, the second holds the
\* name both directly and in a subdirectory, /lib holds it too, and the
\* call returned the direct file of the second extra path.
C13_Witness ==
  /\ lpc = "returned" /\ lreq.extra = Some(<< "q", "p" >>)
  /\ ~HasCandidate("q") /\ lfs["p"] = "both" /\ lfs["/lib/"] = "direct"
  /\ lfound = Some([dir |-> "p", via |-> "direct"])

\* C14: lazy PLT binding.  When the resolver callback has succeeded for a
\* .rel{,a}.plt entry, the slot of the entry holds the address the callback
\* returned, so the slot no longer leads to the resolver; when it has failed
\* it returned 0xBADBABE and the slot is as it was.
C14_LazyBinding ==
  ret.op = "plt_callback" =>
    \A i \in 1..Len(RelPltOf(ret.l)) :
      LET r == RelPltOf(ret.l)[i] IN
      SymbolNameAt(ret.l, r.symbol) = ret.name =>
        IF ret.ok
        THEN /\ mem[ret.l][r.offset] = Unwrap(ret.val)[1]
             /\ ~Unbound(ret.l, r)
        ELSE /\ ret.val = Some(<< PLT_FAILED >>)
             /\ Unbound(ret.l, r)

\* The addresses of the image of loader l
ImageRange(l) == Base(l)..(Base(l) + ImageSize(l) - 1)

\* Two instances of one object that share no dependency instance
Independent(a, b) ==
  /\ a # b /\ lib[a] = lib[b] /\ lib[a] # ""
  /\ Reach(a) \cap Reach(b) = {}

\* C15: instance isolation.  The images of two loaders are disjoint ranges;
\* every word a step writes lies, by its address, in the image of the loader
\* whose relocation or PLT entry it belongs to and in no other image; and
\* while initialize runs on an instance a, or the PLT callback runs for a
\* loader of a's dependency closure, no image word of an independent
\* instance b of the same object, or of b's dependencies, changes.
C15_InstanceIsolation ==
  [][/\ \A a, b \in Created : a # b => ImageRange(a) \cap ImageRange(b) = {}
     /\ \A l \in Created : \A o \in DOMAIN mem[l] :
          mem'[l][o] # mem[l][o] =>
            /\ get_offset(l, o) \in ImageRange(l)
            /\ \A k \in Created \ {l} : get_offset(l, o) \notin ImageRange(k)
     /\ \A a, b \in Created :
          (/\ Independent(a, b)
           /\ \/ \E t \in Threads : stack[t] # << >> /\ stack[t][1].self = a
              \/ \E t \in Threads : stack'[t] # << >> /\ stack'[t][1].self = a
              \/ ret'.op = "plt_callback" /\ ret' # ret /\ ret'.l \in Reach(a))
          => \A k \in Reach(b) : mem'[k] = mem[k]]_vars

\* C15 witness: two independent instances of libA are initialized, the PLT
\* slot of the first was bound by the callback, that of the second was not,
\* and their images differ.
C15_Witness ==
  /\ Independent(1, 2)
  /\ Done(1) /\ Done(2) /\ Done(3) /\ Done(4)
  /\ IsSome(bound[1][136]) /\ Unwrap(bound[1][136]).by = "lazy"
  /\ ~IsSome(bound[2][136])
  /\ mem[1][136] # mem[2][136]

\* The places in the insertion order of l's dependencies whose loader holds
\* the name in its own hash tables
Definers(l, name) ==
  {i \in 1..Len(registered[l]) :
     LET d == DepGet(deps[l], registered[l][i]) IN
     d # NoDep /\ IsSome(find_local_symbol_by_name(d, name, FALSE))}

\* C16: global lookup is depth-first in the insertion order of the
\* dependencies: when get_symbol resolves a name the loader does not hold
\* itself and two of its dependencies define it, the first registered of
\* them among the dependencies being the first registered of all, the result
\* is the definition of that first registered dependency.
C16_InsertionOrderLookup ==
  (/\ ret.op = "get_symbol"
   /\ ~IsSome(find_local_symbol_by_name(ret.l, ret.name, FALSE))
   /\ 1 \in Definers(ret.l, ret.name)
   /\ Cardinality(Definers(ret.l, ret.name)) >= 2)
  => LET first == DepGet(deps[ret.l], registered[ret.l][1])
         s == Unwrap(find_local_symbol_by_name(first, ret.name, FALSE))
     IN ret.val = Some(<< get_offset(ret.l, s.value), s.size >>)

\* The loaders l reaches through one dependency handle or more
ReachBelow(l) ==
  UNION {Reach(deps[l][i].dep) : i \in {j \in 1..Len(deps[l]) : deps[l][j].dep # NoDep}}

\* No dependency cycle is reachable from l
Acyclic(l) == \A x \in Reach(l) : x \notin ReachBelow(x)

\* initialize on l has left its dependency loop and is about to apply l's
\* relocations
AtRelocations(t) == Running(t) /\ Top(t).pc = "deps" /\ Top(t).todo = << >>

InitStub ==
  /\ arch \in {"x86_64", "aarch64"} /\ inline_asm = TRUE /\ quirk = "none"
  /\ InitLoaders
  /\ InitNoCall
  /\ InitNoLocate
  /\ InitNoRelocation
  /\ InitNoRegistry
  /\ stub_req \in StubRequests
  /\ stub_pc = "call" /\ stub_step = 0 /\ stub_page = NoPage /\ stub_result = "none"

NextStub ==
  \/ StubCall
  \/ StubMmap
  \/ StubWrite
  \/ StubMprotect
  \/ StubDrop

SpecStub == InitStub /\ [][NextStub]_vars

\* The relocation loop of an x86_64 build, one relocation at a time
InitRelocation ==
  /\ arch = "x86_64" /\ inline_asm = FALSE /\ quirk = "none"
  /\ InitLoaders
  /\ InitNoCall
  /\ InitNoLocate
  /\ InitNoStub
  /\ InitNoRegistry
  /\ reloc_in \in {Some(i) : i \in RelocInputs}
  /\ reloc_out = None

NextX86Relocation ==
  \/ ApplyX86Relocation
  \/ NextRelocation

SpecRelocation == InitRelocation /\ [][NextX86Relocation]_vars

\* C18: the page of the three thunks is never writable and executable at the
\* same time; when DlopenSymbols::new has returned Ok the page is mapped R+X
\* and not writable, and when it has returned an error no page is mapped.
C18_StubWriteXorExecute ==
  /\ stub_page.mapped => ~({"w", "x"} \subseteq stub_page.prot)
  /\ (stub_pc = "done" /\ stub_result = "Ok")
       => stub_page.mapped /\ stub_page.prot = {"r", "x"}
  /\ (stub_pc = "done" /\ stub_result = "MemoryMapFailed") => ~stub_page.mapped

\* C20: for every S, A and P, R_X86_64_64 writes (S + A) mod 2^64 as 64
\* bits, R_X86_64_PC32 (S + A - P) mod 2^32 as 32 bits, GLOB_DAT and
\* JUMP_SLOT S as 64 bits, RELATIVE base + A as 64 bits, NONE and COPY
\* nothing, and no arm fails on its arithmetic.
C20_RelocationArithmetic ==
  reloc_out # None =>
    LET i == Unwrap(reloc_in)
        o == Unwrap(reloc_out)
    IN CASE i.rel_type = "R64" -> o = Written((i.S + i.A) % WordMod, 64)
         [] i.rel_type = "PC32" -> o = Written((i.S + i.A - i.P) % HalfMod, 32)
         [] i.rel_type \in {"GLOB_DAT", "JUMP_SLOT"} -> o = Written(i.S, 64)
         [] i.rel_type = "RELATIVE" -> o = Written((ImageStride + i.A) % WordMod, 64)
         [] OTHER -> o = NothingWritten

\* The address a search of l's dependencies gives for a name when no
\* override map is consulted
GlobalAddress(l, name) ==
  LET g == find_global_symbol(l, name, FALSE, {}, {}) IN
  IF ~IsSome(g.sym) THEN None
  ELSE LET s == Unwrap(g.sym) IN
       Some(IF IsSome(s.address) THEN Unwrap(s.address) ELSE get_offset(l, s.value))

\* C19: in a resolution with the override flag set only the override map of
\* the resolving loader decides.  A slot of loader l bound against a name l
\* has an override for holds that override (its address, or the sentinel
\* for None) and no search of the dependencies was made; a slot bound
\* through the dependencies holds the address their definitions give,
\* whatever overrides the dependencies have for the name.
C19_OwnOverridesDecide ==
  \A l \in Created : \A o \in DOMAIN bound[l] :
    IsSome(bound[l][o]) =>
      LET b == Unwrap(bound[l][o]) IN
      /\ b.ov # "absent" => (~b.global /\ b.S = OverrideAddress(l, b.name))
      /\ b.global => GlobalAddress(l, b.name) = Some(b.S)

\* C21: the PLT callback and the eager engine agree.  When the callback has
\* acted on an entry of .rel{,a}.plt, it wrote into the slot exactly when
\* the eager engine resolves the entry's symbol, and the word in the slot is
\* the word the eager engine writes for that JUMP_SLOT entry.
C21_LazyAgreesWithEager ==
  ret.op = "plt_callback" =>
    \A i \in 1..Len(RelPltOf(ret.l)) :
      LET r == RelPltOf(ret.l)[i]
          eager == reloc_needs_symbol(ret.l, r, {ret.l})
      IN SymbolNameAt(ret.l, r.symbol) = ret.name =>
           IF ret.ok
           THEN /\ eager.k = "addr"
                /\ mem[ret.l][r.offset] = RelocValue(ret.l, r, eager.a, mem[ret.l][r.offset])
           ELSE eager.k = "skip" /\ Unbound(ret.l, r)

\* C22: with the trampoline enabled initialize installs the PLT data in a
\* .got.plt of any size and returns: slot 0 holds 0xCAFEBABE, slot 1 the
\* address of the loader's PltData, slot 2 the trampoline, every slot from 3
\* on its file word rebased once (until the PLT callback binds it), and no
\* entry of .rel{,a}.plt is applied by the eager pass.
C22_PltInstalled ==
  /\ \A t \in Threads : status[t] # "index_panic"
  /\ \A l \in Created :
       (inline_asm /\ Done(l) /\ IsSome(GotPltOf(l))) =>
         LET got == Unwrap(GotPltOf(l)) IN
         /\ got.count > 0 => mem[l][got.addr] = PLT_0
         /\ got.count > 1 => mem[l][got.addr + 8] = PltDataAddr(l)
         /\ got.count > 2 => mem[l][got.addr + 16] = TrampolineAddr
         /\ \A i \in 3..(got.count - 1) :
              LET o == got.addr + 8 * i IN
              IF IsSome(bound[l][o]) THEN Unwrap(bound[l][o]).by = "lazy"
              ELSE mem[l][o] = get_offset(l, FileVal(o))
         /\ \A i \in 1..Len(RelPltOf(l)) :
              LET b == bound[l][RelPltOf(l)[i].offset] IN
              IsSome(b) => Unwrap(b).by = "lazy"

\* C23: the recursion guard keeps the global search off every loader that is
\* on the lookup stack: a get_symbol call never comes to lock the mutex of
\* a loader its own search holds, on any dependency graph, so it returns.
C23_SearchTerminates ==
  \A t \in Threads : status[t] \notin {"deadlock", "lock_panic"}

\* The loaders whose initialize call is on the stack of thread t
OnStack(t) == {stack[t][i].self : i \in 1..Len(stack[t])}

\* The loaders l holds handles to
DirectDeps(l) == {deps[l][i].dep : i \in 1..Len(deps[l])} \ {NoDep}

C25_LoadRecursive ==
  (ret.op = "load_dependencies" /\ ret.ok) =>
    \A d \in Reach(ret.l) \ HostLoaders :
      /\ loaded_dependencies[d]
      /\ Names(Elf(d).needed) \subseteq DepKeys(deps[d])

\* Symbol lookup in the copy src/jni.rs: the host registers dependencies and
\* the loader looks names up.
NextSymSrc ==
  \E t \in Threads :
    \/ TakeResult(t)
    \/ AddDependency(t)
    \/ FindSymbolByName(t)

SpecSymSrc == Init /\ [][NextSymSrc]_vars

\* C26: the guard flag is transient.  Whenever no lookup is in progress
\* looking_for_symbol is false on every loader, on whichever path the last
\* find_global_symbol returned, and so a lookup that found its symbol does
\* not make a later global lookup on the same loader return absent.
C26_GuardTransient ==
  \A l \in Loaders : ~looking_for_symbol[l]

\* C27: load_dependencies sets loaded_dependencies before it parses.  On an
\* object without a dynamic section the first call returns the error and
\* sets the flag, every later call returns Ok, and no call changes the
\* dependency map or creates a loader.
C27_FlagBeforeParse ==
  [][(/\ ret = NoRet
      /\ ret'.op = "load_dependencies"
      /\ ~ElfOf(lib[ret'.l]).hasDynamic)
     => /\ deps' = deps /\ lib' = lib
        /\ loaded_dependencies'[ret'.l]
        /\ ret'.ok <=> loaded_dependencies[ret'.l]]_vars

\* C27 witness: a later load_dependencies call on libC, which has no dynamic
\* section, has returned Ok with the flag set and nothing registered.
C27_Witness ==
  /\ ret.op = "load_dependencies" /\ ret.l = 3 /\ ret.ok
  /\ loaded_dependencies[3] /\ deps[3] = << >>

\* C28: a slot is bound by the override map of the moment it is bound and
\* keeps its word.  A step that binds a slot binds it to the loader's
\* override of the symbol if the map holds one at that moment (the eager
\* pass at initialize, the PLT callback at the first call through the
\* slot); a step taken when the slot is bound, be it override_symbol or
\* initialize, changes neither the binding nor the word in the slot.
C28_BindingFixed ==
  [][\A l \in Created : \A o \in DOMAIN bound[l] :
       IF IsSome(bound[l][o])
       THEN bound'[l][o] = bound[l][o] /\ mem'[l][o] = mem[l][o]
       ELSE IsSome(bound'[l][o]) =>
              LET b == Unwrap(bound'[l][o]) IN
              /\ b.ov = OverrideKind(l, b.name)
              /\ b.ov # "absent" => b.S = OverrideAddress(l, b.name)]_vars

\* C28 witness: the host has overridden a symbol of an initialized loader
\* after the relocation pass bound a slot against it, and the slot still
\* holds what the pass wrote.
C28_Witness ==
  \E l \in Created : \E o \in DOMAIN bound[l] :
    /\ Done(l) /\ stack = [t \in Threads |-> << >>]
    /\ IsSome(bound[l][o])
    /\ Unwrap(bound[l][o]).by = "eager" /\ Unwrap(bound[l][o]).ov = "absent"
    /\ HasOverride(l, Unwrap(bound[l][o]).name)
    /\ IsSome(symbol_overrides[l][Unwrap(bound[l][o]).name])
    /\ mem[l][o] # HostFn

\* The registry of attached images, called from two threads
InitRegistry ==
  /\ arch \in {"x86_64", "aarch64"} /\ inline_asm = FALSE /\ quirk = "none"
  /\ InitLoaders
  /\ InitNoCall
  /\ InitNoLocate
  /\ InitNoStub
  /\ InitNoRelocation
  /\ InitNoRegistry

NextRegistry ==
  \E t \in DebugThreads :
    \/ AddLibraryLock(t)
    \/ AddLibraryInsert(t)
    \/ AddLibraryHook(t)
    \/ LibLoadedReturn(t)
    \/ RemoveLibraryLock(t)
    \/ RemoveLibrary(t)
    \/ IterLibsLock(t)
    \/ IterLibsCallback(t)

SpecRegistry == InitRegistry /\ [][NextRegistry]_vars

\* C29: while a thread is inside the jni_loader_lib_loaded call that
\* add_library makes, the name pointer it passed points into the CString the
\* registry holds at that base address: the entry has been neither removed
\* nor replaced since the registry lock was released.
C29_HookNameOwned ==
  \A t \in DebugThreads :
    dbg[t].pc = "hook" => LIBRARIES[dbg[t].base] = dbg[t].name_ptr

\* Two host threads, each with a root of its own: libA (1) and libB (2).
\* Both roots depend on the libC instances 3 and 4, which they hold in
\* opposite orders, and 3 depends on 4.
SharedThreads == {1, 2}
RootOf(t) == t
SharedDeps ==
  << << [name |-> "libC", dep |-> 3], [name |-> "libD", dep |-> 4] >>,
     << [name |-> "libD", dep |-> 4], [name |-> "libC", dep |-> 3] >>,
     << [name |-> "libD", dep |-> 4] >>,
     << >> >>
SharedDepsOf(l) == IF l \in DOMAIN SharedDeps THEN SharedDeps[l] ELSE << >>
SharedLib(l) ==
  IF l = 1 THEN "libA" ELSE IF l = 2 THEN "libB" ELSE IF l \in {3, 4} THEN "libC" ELSE ""

InitShared ==
  /\ arch \in {"x86_64", "aarch64"}
  /\ inline_asm \in BOOLEAN
  /\ quirk = "none"
  /\ lib = [l \in Loaders |-> SharedLib(l)]
  /\ deps = [l \in Loaders |-> SharedDepsOf(l)]
  /\ registered = [l \in Loaders |-> [i \in 1..Len(SharedDepsOf(l)) |-> SharedDepsOf(l)[i].name]]
  /\ loaded_dependencies = [l \in Loaders |-> FALSE]
  /\ have_been_initialized = [l \in Loaders |-> FALSE]
  /\ looking_for_symbol = [l \in Loaders |-> FALSE]
  /\ symbol_overrides = [l \in Loaders |-> << >>]
  /\ mem = [l \in Loaders |-> FreshMem(SharedLib(l))]
  /\ mutex = [l \in Loaders |-> 0]
  /\ stack = [t \in SharedThreads |-> << >>]
  /\ status = [t \in SharedThreads |-> "ok"]
  /\ relocRuns = [l \in Loaders |-> 0]
  /\ bound = [l \in Loaders |-> FreshBound(SharedLib(l))]
  /\ ovAtInit = [l \in Loaders |-> << >>]
  /\ ret = NoRet
  /\ InitNoCall
  /\ InitNoLocate
  /\ InitNoStub
  /\ InitNoRelocation
  /\ InitNoRegistry

\* Thread t calls initialize on its root
CallInitializeRoot(t) ==
  /\ CallInitialize(t)
  /\ stack'[t][1].self = RootOf(t)

\* The relocation pass of the loader on top of t's stack; its symbol lookups
\* lock the loaders below it, and wait while another thread holds one
InitRelocateShared(t) ==
  /\ Running(t)
  /\ \A d \in ReachBelow(Top(t).self) : mutex[d] \in {0, t}
  /\ InitRelocate(t)

\* What a thread inside initialize can do next
InitStep(t) ==
  \/ InitSkipNone(t)
  \/ InitLockDep(t)
  \/ InitSelfLock(t)
  \/ InitRelocateShared(t)
  \/ InitReturn(t)

NextShared ==
  \E t \in SharedThreads :
    \/ CallInitializeRoot(t)
    \/ InitLockDep(t)
    \/ InitRelocateShared(t)
    \/ InitReturn(t)

SpecShared == InitShared /\ [][NextShared]_vars

\* The relocation pass of l has run once and its initialize is past it
PassedBy(l) ==
  /\ relocRuns[l] = 1
  /\ \A t \in SharedThreads : \A i \in 1..Len(stack[t]) :
       stack[t][i].self = l => stack[t][i].pc = "ret"

\* C30: two threads initialize two roots that share dependencies.  No call
\* is stuck: a thread inside initialize can take a step, or the other
\* thread, which holds the mutex it waits for, can; no lock() fails.  The
\* relocation pass of a shared dependency runs at most once, and a root is
\* at its own relocations, or past them, only when the pass of every
\* loader below it has run once and completed.
C30_SharedDependency ==
  /\ \A t \in SharedThreads :
       /\ status[t] = "ok"
       /\ stack[t] # << >> => \E u \in SharedThreads : ENABLED InitStep(u)
  /\ \A l \in Loaders : relocRuns[l] <= 1
  /\ \A t \in SharedThreads :
       (/\ stack[t] # << >>
        /\ \/ stack[t][1].pc = "ret"
           \/ Len(stack[t]) = 1 /\ stack[t][1].pc = "deps" /\ stack[t][1].todo = << >>)
         => \A d \in ReachBelow(RootOf(t)) : PassedBy(d)
  /\ \A t \in SharedThreads :
       relocRuns[RootOf(t)] = 1 => \A d \in ReachBelow(RootOf(t)) : relocRuns[d] = 1

\* C30 witness: thread 1's initialize has returned with the passes of its
\* root and of both shared dependencies run once; thread 2, inside its own
\* initialize, has locked the shared dependency 3 and found it initialized.
C30_Witness ==
  /\ stack[1] = << >> /\ relocRuns[1] = 1 /\ relocRuns[3] = 1 /\ relocRuns[4] = 1
  /\ Len(stack[2]) = 2 /\ stack[2][1].self = 2 /\ stack[2][2].self = 3
  /\ stack[2][2].again /\ mutex[3] = 2 /\ relocRuns[2] = 0

====
